---- MODULE Spec2Model ----
(***************************************************************************)
(* Verification model of base-ui-rn: the Toggle and Button primitives, the *)
(* handler composer (mergeHandlers), the prop merger (mergeProps), the ref *)
(* fan-out (mergeRefs) and the render delegate (Slot).                     *)
(*                                                                         *)
(* Every component has its own specification (SpecToggle, SpecButton,      *)
(* SpecHandlers, SpecProps, SpecRefs, SpecSlot); the variables of the      *)
(* components it does not use stay at their initial value under it.        *)
(***************************************************************************)
EXTENDS Integers, Sequences, FiniteSets, TLC

VARIABLES
  tProps,             \* Toggle: props of the current render (pressed, defaultPressed, disabled, focusableWhenDisabled, tabIndex, accessibilityState)
  uncontrolledState,  \* Toggle: React.useState(defaultPressed)
  tRendered,          \* Toggle: what the closures of the last render captured
  tInput,             \* Toggle: the last input the host delivered
  tCalls,             \* Toggle: the caller's callbacks invoked by the last input, in order
  tHist,              \* Toggle: history of the instance (number of activations, modes it went through)
  bProps,             \* Button: props of the current render (disabled, focusableWhenDisabled, tabIndex, accessibilityState)
  bRendered,          \* Button: what the last render handed to the host component
  bInput,             \* Button: the last input the host delivered
  bCalls,             \* Button: the caller's callbacks invoked by the last input, in order
  bEverDisabled,      \* Button: the instance has been rendered disabled
  handlerCache,       \* mergeHandlers: primitive handler -> consumer handler -> merged handler
  hNext,              \* mergeHandlers: number of mergedHandler closures created so far
  hCall,              \* mergeHandlers: arguments and result of the last call
  hFirst,             \* mergeHandlers: the result of the first call made for each pair of present handlers
  hRun,               \* mergeHandlers: the last invocation of a merged handler
  mpInjected,         \* mergeProps: the injected bag of the call
  mpChild,            \* mergeProps: the child bag of the call
  mpResult,           \* mergeProps: outcome of the call (returned bag and whether it is the child object itself)
  rMerged,            \* mergeRefs: the refs the last callback returned by mergeRefs closes over
  rObserved,          \* mergeRefs: per ref, the last value it was called with / its current
  rRun,               \* mergeRefs: the last invocation of the merged callback
  sInput,             \* Slot: children, injected props, forwarded ref and build of the render
  sResult,            \* Slot: outcome of the render (error or element)
  aProps,             \* asChild Root: which Root, its disabled prop and the build
  aChild,             \* asChild Root: the child element (its type, props and ref)
  aChecked,           \* asChild Root: uncontrolledChecked of a Toggle.Root
  aRendered,          \* asChild Root: outcome of the last render (element or error, warning logged)
  aTouch              \* asChild Root: the touch the host is handling and what the handlers did

toggleVars == <<tProps, uncontrolledState, tRendered, tInput, tCalls, tHist>>

buttonVars == <<bProps, bRendered, bInput, bCalls, bEverDisabled>>

handlerVars == <<handlerCache, hNext, hCall, hFirst, hRun>>

propsVars == <<mpInjected, mpChild, mpResult>>

refVars == <<rMerged, rObserved, rRun>>

slotVars == <<sInput, sResult>>

asChildVars == <<aProps, aChild, aChecked, aRendered, aTouch>>

vars == <<toggleVars, buttonVars, handlerVars, propsVars, refVars, slotVars, asChildVars>>

\* What a step of one component leaves alone.
ToggleFrame == UNCHANGED <<buttonVars, handlerVars, propsVars, refVars, slotVars, asChildVars>>

ButtonFrame == UNCHANGED <<toggleVars, handlerVars, propsVars, refVars, slotVars, asChildVars>>

HandlersFrame == UNCHANGED <<toggleVars, buttonVars, propsVars, refVars, slotVars, asChildVars>>

PropsFrame == UNCHANGED <<toggleVars, buttonVars, refVars, slotVars, asChildVars>>

RefsFrame == UNCHANGED <<toggleVars, buttonVars, handlerVars, propsVars, slotVars, asChildVars>>

SlotFrame == UNCHANGED <<toggleVars, buttonVars, propsVars, asChildVars>>

----------------------------------------------------------------------------
(* Optional values: <<>> is undefined, <<v>> is the defined value v.       *)

Undefined == <<>>
Some(v) == <<v>>
OptBool == {Undefined, Some(TRUE), Some(FALSE)}

\* props.tabIndex
OptTabIndex == {Undefined, Some(0), Some(-1)}

\* The accessibilityState a caller passes: none, or an object (key -> flag).
AccessibilityStates ==
  {Undefined,
   Some([k \in {"checked", "disabled", "busy"} |-> TRUE]),
   Some([k \in {"checked", "disabled", "selected"} |-> k = "selected"])}

----------------------------------------------------------------------------
(* Inputs the host can deliver.                                            *)

ActivationKeys ==
  {"Enter", " ", "Spacebar", "Space", "Select", "Return", "OK", "Accept"}

OtherKeys == {"Tab", "ArrowDown", "Escape"}

Keys == ActivationKeys \cup OtherKeys

ActivateActions == {"activate", "click", "magicTap"}

OtherActions == {"longpress", "escape"}

ActionNames == ActivateActions \cup OtherActions

\* One invocation of a caller-supplied callback.
Call(fn, value, arg) == [fn |-> fn, value |-> value, arg |-> arg]

NoInput == [kind |-> "render", arg |-> ""]

----------------------------------------------------------------------------
(* Toggle (Root of the Toggle primitive)                                   *)

\* The props a Toggle is rendered with when it is followed on its own (the
\* caller leaves tabIndex to the Toggle).
ToggleProps ==
  [pressed : OptBool, defaultPressed : BOOLEAN,
   disabled : OptBool, focusableWhenDisabled : BOOLEAN,
   tabIndex : {Undefined}, accessibilityState : AccessibilityStates]

\* const isPressed = controlledState !== undefined ? controlledState : uncontrolledState
isPressed(controlledState, uncontrolled) ==
  IF controlledState # Undefined THEN controlledState[1] ELSE uncontrolled

\* const isDisabled = disabled === true
isDisabled(disabled) == disabled = Some(TRUE)

\* const isFocusable = !isDisabled || focusableWhenDisabled === true
isFocusable(disabled, focusableWhenDisabled) ==
  ~isDisabled(disabled) \/ focusableWhenDisabled

\* props.tabIndex || (isFocusable ? 0 : -1): a given 0 falls through as well.
resolvedTabIndex_FalsyFallsThrough(tabIndex, focusable) ==
  IF tabIndex # Undefined /\ tabIndex[1] # 0
    THEN tabIndex[1] ELSE IF focusable THEN 0 ELSE -1

\* props.tabIndex ?? (isFocusable ? 0 : -1)
resolvedTabIndex(tabIndex, focusable) ==
  IF tabIndex # Undefined THEN tabIndex[1] ELSE IF focusable THEN 0 ELSE -1

\* { ...own, ...accessibilityState }: the own keys first, the caller's last.
SpreadOver_CallerLast(accessibilityState, own) ==
  LET given == IF accessibilityState = Undefined THEN <<>> ELSE accessibilityState[1]
  IN  [k \in DOMAIN given \cup DOMAIN own |-> IF k \in DOMAIN given THEN given[k] ELSE own[k]]

\* { ...accessibilityState, ...own }: the caller's keys, the own keys last.
SpreadOver(accessibilityState, own) ==
  LET given == IF accessibilityState = Undefined THEN <<>> ELSE accessibilityState[1]
  IN  [k \in DOMAIN given \cup DOMAIN own |-> IF k \in DOMAIN own THEN own[k] ELSE given[k]]

\* The model follows an instance for at most MaxActivations activations.
MaxActivations == 3

CanActivate == tHist.n < MaxActivations

\* One render pass: the values the handlers of this render close over and
\* the props handed to PressableWithKeyPress.
ToggleRenderOf(props, uncontrolled) ==
  [controlledState    |-> props.pressed,
   isPressed          |-> isPressed(props.pressed, uncontrolled),
   isDisabled         |-> isDisabled(props.disabled),
   isFocusable        |-> isFocusable(props.disabled, props.focusableWhenDisabled),
   tabIndex           |-> resolvedTabIndex(props.tabIndex,
                            isFocusable(props.disabled, props.focusableWhenDisabled)),
   accessibilityState |-> SpreadOver(props.accessibilityState,
                            [k \in {"disabled", "checked"} |->
                               IF k = "disabled" THEN isDisabled(props.disabled)
                               ELSE isPressed(props.pressed, uncontrolled)])]

\* A dispatchChange that writes the internal state in controlled mode too.
dispatchChangeState_AlwaysSets(next) == next

\* dispatchChange(next, details): the state it leaves and the callback it calls.
dispatchChangeState(next) ==
  IF tRendered.controlledState = Undefined THEN next ELSE uncontrolledState

dispatchChangeCalls(next, source) == <<Call("onPressedChange", next, source)>>

\* An activateToggle that passes the current state on instead of its negation.
activateToggleNext_NoNegation == tRendered.isPressed

\* An activateToggle that negates the state as it is when the handler runs.
activateToggleNext_FromLatestState == ~isPressed(tProps.pressed, uncontrolledState)

\* activateToggle: the value it dispatches, !isPressed of the render it closes over.
activateToggleNext == ~tRendered.isPressed

\* An activateToggle that calls onPress after every activation.
activateToggleCalls_AnySource(source, hasEvent) ==
  dispatchChangeCalls(activateToggleNext, source) \o <<Call("onPress", FALSE, "event")>>

\* activateToggle(source, nativeEvent): the callbacks it calls, in order.
activateToggleCalls(source, hasEvent) ==
  dispatchChangeCalls(activateToggleNext, source)
    \o (IF hasEvent /\ source = "press" THEN <<Call("onPress", FALSE, "event")>> ELSE <<>>)

\* The history of the instance after an input that did or did not activate.
HistAfter(activated) ==
  [tHist EXCEPT
     !.n      = IF activated THEN @ + 1 ELSE @,
     !.stale  = @ \/ (activated /\ tRendered.isPressed # isPressed(tProps.pressed, uncontrolledState))]

\* The host's Pressable calls onPress={handlePress} unless disabled={isDisabled}.
handlePress ==
  /\ tRendered.isDisabled \/ CanActivate
  /\ tInput' = [kind |-> "press", arg |-> "event"]
  /\ IF tRendered.isDisabled
       THEN /\ tCalls' = <<>>
            /\ UNCHANGED <<uncontrolledState, tHist>>
       ELSE /\ tCalls' = activateToggleCalls("press", TRUE)
            /\ uncontrolledState' = dispatchChangeState(activateToggleNext)
            /\ tHist' = HistAfter(TRUE)
  /\ UNCHANGED <<tProps, tRendered>>

TogglePress == handlePress /\ ToggleFrame

\* A handleKeyPress that treats every key as an activation key.
ToggleHandleKeyPress_AnyKey(key) ==
  /\ CanActivate
  /\ tInput' = [kind |-> "key", arg |-> key]
  /\ tCalls' = activateToggleCalls("keyboard", FALSE) \o <<Call("onKeyPress", FALSE, key)>>
  /\ uncontrolledState' = dispatchChangeState(activateToggleNext)
  /\ tHist' = HistAfter(TRUE)
  /\ UNCHANGED <<tProps, tRendered>>
  /\ ToggleFrame

\* A handleKeyPress that passes on only the keys it did not handle itself.
toggleHandleKeyPress_ForwardsUnhandledOnly(key) ==
  /\ key \in ActivationKeys => CanActivate
  /\ tInput' = [kind |-> "key", arg |-> key]
  /\ IF key \in ActivationKeys
       THEN /\ tCalls' = activateToggleCalls("keyboard", FALSE)
            /\ uncontrolledState' = dispatchChangeState(activateToggleNext)
            /\ tHist' = HistAfter(TRUE)
       ELSE /\ tCalls' = <<Call("onKeyPress", FALSE, key)>>
            /\ UNCHANGED <<uncontrolledState, tHist>>
  /\ UNCHANGED <<tProps, tRendered>>

\* handleKeyPress(e)
toggleHandleKeyPress(key) ==
  /\ key \in ActivationKeys => CanActivate
  /\ tInput' = [kind |-> "key", arg |-> key]
  /\ IF key \in ActivationKeys
       THEN /\ tCalls' = activateToggleCalls("keyboard", FALSE)
                           \o <<Call("onKeyPress", FALSE, key)>>
            /\ uncontrolledState' = dispatchChangeState(activateToggleNext)
            /\ tHist' = HistAfter(TRUE)
       ELSE /\ tCalls' = <<Call("onKeyPress", FALSE, key)>>
            /\ UNCHANGED <<uncontrolledState, tHist>>
  /\ UNCHANGED <<tProps, tRendered>>

ToggleHandleKeyPress(key) == toggleHandleKeyPress(key) /\ ToggleFrame

\* handleAccessibilityAction(event)
toggleHandleAccessibilityAction(actionName) ==
  /\ actionName \in ActivateActions => CanActivate
  /\ tInput' = [kind |-> "action", arg |-> actionName]
  /\ IF actionName \in ActivateActions
       THEN /\ tCalls' = activateToggleCalls("accessibilityAction", FALSE)
                           \o <<Call("onAccessibilityAction", FALSE, actionName)>>
            /\ uncontrolledState' = dispatchChangeState(activateToggleNext)
            /\ tHist' = HistAfter(TRUE)
       ELSE /\ tCalls' = <<Call("onAccessibilityAction", FALSE, actionName)>>
            /\ UNCHANGED <<uncontrolledState, tHist>>
  /\ UNCHANGED <<tProps, tRendered>>

ToggleHandleAccessibilityAction(actionName) == toggleHandleAccessibilityAction(actionName) /\ ToggleFrame

\* The re-render React schedules after setUncontrolledState changed the state.
toggleRender ==
  /\ tRendered # ToggleRenderOf(tProps, uncontrolledState)
  /\ tRendered' = ToggleRenderOf(tProps, uncontrolledState)
  /\ tInput' = NoInput
  /\ tCalls' = <<>>
  /\ UNCHANGED <<tProps, uncontrolledState, tHist>>

ToggleRender == toggleRender /\ ToggleFrame

\* A render that copies a supplied controlled value into the internal state.
toggleRerender_SyncsInternalState(props) ==
  /\ props.defaultPressed = tProps.defaultPressed
  /\ tProps' = props
  /\ uncontrolledState' = isPressed(props.pressed, uncontrolledState)
  /\ tRendered' = ToggleRenderOf(props, uncontrolledState')
  /\ tInput' = NoInput
  /\ tCalls' = <<>>
  /\ tHist' = [tHist EXCEPT
                 !.everControlled = @ \/ props.pressed # Undefined,
                 !.everDisabled   = @ \/ isDisabled(props.disabled)]

\* The caller renders the Toggle again with other props (defaultPressed is
\* only read by useState at mount, so it is kept).
toggleRerender(props) ==
  /\ props.defaultPressed = tProps.defaultPressed
  /\ tProps' = props
  /\ tRendered' = ToggleRenderOf(props, uncontrolledState)
  /\ tInput' = NoInput
  /\ tCalls' = <<>>
  /\ tHist' = [tHist EXCEPT
                 !.everControlled = @ \/ props.pressed # Undefined,
                 !.everDisabled   = @ \/ isDisabled(props.disabled)]
  /\ UNCHANGED uncontrolledState

ToggleRerender(props) == props # tProps /\ toggleRerender(props) /\ ToggleFrame

ToggleInit ==
  /\ tProps \in ToggleProps
  /\ uncontrolledState = tProps.defaultPressed
  /\ tRendered = ToggleRenderOf(tProps, uncontrolledState)
  /\ tInput = NoInput
  /\ tCalls = <<>>
  /\ tHist = [n |-> 0, stale |-> FALSE,
              everControlled |-> tProps.pressed # Undefined,
              everDisabled   |-> isDisabled(tProps.disabled)]

ToggleNext ==
  \/ TogglePress
  \/ \E key \in Keys : ToggleHandleKeyPress(key)
  \/ \E actionName \in ActionNames : ToggleHandleAccessibilityAction(actionName)
  \/ ToggleRender
  \/ \E props \in ToggleProps : ToggleRerender(props)

----------------------------------------------------------------------------
(* Toggle: properties                                                      *)

\* The state the next render pass exposes.
Exposed == isPressed(tProps.pressed, uncontrolledState)

\* The last render pass is up to date with the props and the state.
ToggleFresh == tRendered = ToggleRenderOf(tProps, uncontrolledState)

\* The input is one of the activation triggers.
IsActivationInput(input) ==
  \/ input.kind = "press"
  \/ input.kind = "key" /\ input.arg \in ActivationKeys
  \/ input.kind = "action" /\ input.arg \in ActivateActions

IsInput(input) == input.kind \in {"press", "key", "action"}

SourceOf(input) ==
  CASE input.kind = "press"  -> "press"
    [] input.kind = "key"    -> "keyboard"
    [] input.kind = "action" -> "accessibilityAction"
    [] OTHER                 -> "none"

CallsOf(calls, fn) == SelectSeq(calls, LAMBDA c : c.fn = fn)

\* C1: while the Toggle is disabled, no input (pointer press, activation key,
\* activate/click/magicTap action) calls onPressedChange or onPress, and the
\* exposed pressed state is the same after the input as before it.
C1_DisabledToggleIgnoresInput ==
  [][ (tRendered.isDisabled /\ IsActivationInput(tInput'))
        => /\ CallsOf(tCalls', "onPressedChange") = <<>>
           /\ CallsOf(tCalls', "onPress") = <<>>
           /\ Exposed' = Exposed ]_vars

\* C2: an enabled, uncontrolled Toggle starts at defaultPressed; every
\* activation made on an up-to-date render calls onPressedChange with the
\* negation of the state exposed before it and makes that negation the exposed
\* state; after n such activations the exposed state is defaultPressed flipped
\* n times.
C2_UncontrolledFlips ==
  /\ [](( ~tHist.everControlled /\ ~tHist.everDisabled /\ ~tHist.stale /\ ToggleFresh )
          => tRendered.isPressed = (IF tHist.n % 2 = 0 THEN tProps.defaultPressed
                                                      ELSE ~tProps.defaultPressed))
  /\ [][ ( /\ ~tHist.everControlled /\ ~tHist.everDisabled /\ ToggleFresh
           /\ IsActivationInput(tInput') )
           => /\ CallsOf(tCalls', "onPressedChange")
                   = <<Call("onPressedChange", ~tRendered.isPressed, SourceOf(tInput'))>>
              /\ uncontrolledState' = ~tRendered.isPressed
              /\ Exposed' = ~tRendered.isPressed ]_vars

C2_Witness ==
  /\ ~tHist.everControlled /\ ~tHist.everDisabled /\ ~tHist.stale /\ ToggleFresh
  /\ tHist.n = 2
  /\ tProps.defaultPressed

\* C3: while a controlled value is supplied the exposed state is that value;
\* a permitted activation calls onPressedChange with its negation, the exposed
\* state stays until the caller supplies another value, and the internal
\* uncontrolled state is never written.
C3_ControlledMirrorsProp ==
  /\ [](tProps.pressed # Undefined
          => /\ tRendered.isPressed = tProps.pressed[1]
             /\ Exposed = tProps.pressed[1])
  /\ [][ (tProps.pressed # Undefined /\ tProps' = tProps)
           => /\ uncontrolledState' = uncontrolledState
              /\ tRendered'.isPressed = tRendered.isPressed
              /\ (IsActivationInput(tInput') /\ ~tRendered.isDisabled)
                   => CallsOf(tCalls', "onPressedChange")
                        = <<Call("onPressedChange", ~tProps.pressed[1], SourceOf(tInput'))>> ]_vars

C3_Witness ==
  /\ tProps.pressed = Some(FALSE)
  /\ tHist.n = 2
  /\ tInput.kind = "press"
  /\ CallsOf(tCalls, "onPressedChange") = <<Call("onPressedChange", TRUE, "press")>>
  /\ uncontrolledState = tProps.defaultPressed

\* C10: a permitted activation calls onPressedChange exactly once, tagged with
\* the source of the input ('press', 'keyboard', 'accessibilityAction'); a key
\* or an accessibility action that is no activation trigger does not call it.
C10_OneTaggedChangePerActivation ==
  /\ (IsActivationInput(tInput) /\ ~tRendered.isDisabled)
       => /\ Len(CallsOf(tCalls, "onPressedChange")) = 1
          /\ CallsOf(tCalls, "onPressedChange")[1].arg = SourceOf(tInput)
  /\ (IsInput(tInput) /\ ~IsActivationInput(tInput))
       => CallsOf(tCalls, "onPressedChange") = <<>>

C10_Witness ==
  /\ tInput = [kind |-> "action", arg |-> "magicTap"]
  /\ ~tRendered.isDisabled
  /\ CallsOf(tCalls, "onPressedChange")[1].arg = "accessibilityAction"

C10_WitnessOther ==
  /\ tInput = [kind |-> "key", arg |-> "Tab"]
  /\ tCalls = <<Call("onKeyPress", FALSE, "Tab")>>

\* C24: the accessibilityState of every Toggle render has checked equal to
\* the pressed state that render exposes (the state to expose now, once the
\* render is up to date) and disabled equal to (disabled === true), whatever
\* the caller's accessibilityState holds under these two keys; every other key
\* of the caller's object is kept with its value and no key is added; a
\* disabled Toggle reports checked all the same.
C24_AccessibilityStateOverrides ==
  LET given    == IF tProps.accessibilityState = <<>> THEN <<>>
                  ELSE tProps.accessibilityState[1]
      reported == tRendered.accessibilityState
  IN  /\ DOMAIN reported = DOMAIN given \cup {"checked", "disabled"}
      /\ reported.checked = tRendered.isPressed
      /\ ToggleFresh => reported.checked = Exposed
      /\ reported.disabled = (tProps.disabled = <<TRUE>>)
      /\ \A k \in DOMAIN given \ {"checked", "disabled"} : reported[k] = given[k]

\* Pressed, then disabled, the caller's object saying unchecked and enabled.
C24_Witness ==
  /\ tProps.disabled = Some(TRUE)
  /\ tProps.accessibilityState
       = Some([k \in {"checked", "disabled", "selected"} |-> k = "selected"])
  /\ tHist.n > 0
  /\ tRendered.isPressed
  /\ tRendered.accessibilityState
       = [k \in {"checked", "disabled", "selected"} |-> TRUE]

\* Enabled and not pressed, the caller's object saying checked and disabled.
C24_WitnessCallerSaysChecked ==
  /\ tProps.disabled # Some(TRUE)
  /\ tProps.accessibilityState = Some([k \in {"checked", "disabled", "busy"} |-> TRUE])
  /\ ~tRendered.isPressed /\ ToggleFresh
  /\ tRendered.accessibilityState
       = [k \in {"checked", "disabled", "busy"} |-> k = "busy"]

\* C27: the Toggle calls onPress only for a pointer press: an activating
\* press calls onPressedChange and then onPress, once each and in this order;
\* an activating key or accessibility action calls onPressedChange and never
\* onPress.
C27_OnPressOnlyAfterPointerChange ==
  /\ CallsOf(tCalls, "onPress") # <<>> => tInput.kind = "press"
  /\ (tInput.kind = "press" /\ ~tRendered.isDisabled)
       => /\ Len(tCalls) = 2
          /\ tCalls[1] = Call("onPressedChange", ~tRendered.isPressed, "press")
          /\ tCalls[2] = Call("onPress", FALSE, "event")
  /\ (tInput.kind \in {"key", "action"} /\ IsActivationInput(tInput))
       => /\ CallsOf(tCalls, "onPressedChange") # <<>>
          /\ CallsOf(tCalls, "onPress") = <<>>

C27_Witness ==
  /\ tInput.kind = "press" /\ ~tRendered.isDisabled
  /\ tCalls = <<Call("onPressedChange", TRUE, "press"), Call("onPress", FALSE, "event")>>

C27_WitnessKeyboard ==
  /\ tInput = [kind |-> "key", arg |-> "Enter"]
  /\ tCalls = <<Call("onPressedChange", TRUE, "keyboard"), Call("onKeyPress", FALSE, "Enter")>>

C27_WitnessAction ==
  /\ tInput = [kind |-> "action", arg |-> "activate"]
  /\ tCalls = <<Call("onPressedChange", FALSE, "accessibilityAction"),
                Call("onAccessibilityAction", FALSE, "activate")>>

\* C28: when an activation reaches a handler of the render that already
\* handled the activation before it (an uncontrolled Toggle, no render in
\* between), it calls onPressedChange with the same value as that one, the
\* negation of the state the render captured, and the state the next render
\* exposes is this value: flipped once, not twice.
C28_StaleHandlerFlipsOnce ==
  [][ ( /\ tRendered.controlledState = Undefined /\ tProps.pressed = Undefined
        /\ IsInput(tInput) /\ CallsOf(tCalls, "onPressedChange") # <<>>
        /\ tHist'.n = tHist.n + 1 )
        => /\ tRendered' = tRendered
           /\ Len(CallsOf(tCalls', "onPressedChange")) = 1
           /\ CallsOf(tCalls', "onPressedChange")[1].value
                = CallsOf(tCalls, "onPressedChange")[1].value
           /\ CallsOf(tCalls', "onPressedChange")[1].value = ~tRendered.isPressed
           /\ uncontrolledState' = ~tRendered.isPressed
           /\ ToggleRenderOf(tProps', uncontrolledState').isPressed = ~tRendered.isPressed
    ]_vars

\* Two activations on the first render of a Toggle that started unpressed.
C28_Witness ==
  /\ tProps.pressed = Undefined /\ ~tProps.defaultPressed /\ ~tHist.everControlled
  /\ tHist.n = 2 /\ tHist.stale
  /\ ~tRendered.isPressed
  /\ tInput.kind = "press"
  /\ CallsOf(tCalls, "onPressedChange") = <<Call("onPressedChange", TRUE, "press")>>
  /\ uncontrolledState

\* C29: the mode is decided by every render anew: a render exposes the
\* controlled prop when it is not undefined and the internal value when it
\* is, whatever the mode was before; no step taken while the prop is supplied
\* (activation or re-render) changes the internal value; and the render on
\* which the prop becomes undefined exposes the internal value as it was
\* throughout the controlled period.
C29_ModeDecidedPerRender ==
  /\ []( /\ tRendered.controlledState = tProps.pressed
         /\ (tRendered.controlledState # Undefined)
              => tRendered.isPressed = tRendered.controlledState[1]
         /\ (tRendered.controlledState = Undefined /\ ToggleFresh)
              => tRendered.isPressed = uncontrolledState )
  /\ [][ /\ (tProps.pressed # Undefined) => uncontrolledState' = uncontrolledState
         /\ (tProps.pressed # Undefined /\ tProps'.pressed = Undefined)
              => tRendered'.isPressed = uncontrolledState
    ]_vars

\* Controlled for a while and activated then, uncontrolled now: the default
\* is exposed.
C29_Witness ==
  /\ tHist.everControlled /\ tProps.pressed = Undefined
  /\ tHist.n = 1 /\ ~tProps.defaultPressed
  /\ ~uncontrolledState /\ ToggleFresh /\ ~tRendered.isPressed

\* Set to pressed while uncontrolled, controlled as unpressed now.
C29_WitnessBecameControlled ==
  /\ uncontrolledState /\ ~tProps.defaultPressed
  /\ tProps.pressed = Some(FALSE) /\ ~tRendered.isPressed

\* Released after that: pressed again.
C29_WitnessReleased ==
  /\ tHist.everControlled /\ tProps.pressed = Undefined
  /\ uncontrolledState /\ ~tProps.defaultPressed /\ tHist.n = 2
  /\ ToggleFresh /\ tRendered.isPressed

----------------------------------------------------------------------------
(* Button (Root of the Button primitive)                                   *)

ButtonProps ==
  [disabled : OptBool, focusableWhenDisabled : BOOLEAN, tabIndex : OptTabIndex,
   accessibilityState : AccessibilityStates]

\* One render pass: isDisabled and the props handed to PressableWithKeyPress.
ButtonRenderOf(props) ==
  [isDisabled         |-> isDisabled(props.disabled),
   focusable          |-> isFocusable(props.disabled, props.focusableWhenDisabled),
   tabIndex           |-> resolvedTabIndex(props.tabIndex,
                            isFocusable(props.disabled, props.focusableWhenDisabled)),
   accessibilityState |-> SpreadOver(props.accessibilityState,
                            [k \in {"disabled"} |-> isDisabled(props.disabled)])]

\* The host's Pressable calls onPress={onPress} unless disabled={isDisabled}.
buttonOnPress ==
  /\ bInput' = [kind |-> "press", arg |-> "event"]
  /\ bCalls' = IF isDisabled(bProps.disabled)
                 THEN <<>>
                 ELSE <<Call("onPress", FALSE, "event")>>
  /\ UNCHANGED <<bProps, bRendered, bEverDisabled>>

ButtonPress == buttonOnPress /\ ButtonFrame

\* A handleKeyPress without the !isDisabled test.
ButtonHandleKeyPress_NoGuard(key) ==
  /\ bInput' = [kind |-> "key", arg |-> key]
  /\ bCalls' = (IF key \in ActivationKeys
                  THEN <<Call("onPress", FALSE, key)>> ELSE <<>>)
               \o <<Call("onKeyPress", FALSE, key)>>
  /\ UNCHANGED <<bProps, bRendered, bEverDisabled>>
  /\ ButtonFrame

\* A handleKeyPress that knows 'Enter' and ' ' only.
buttonHandleKeyPress_EnterSpaceOnly(key) ==
  /\ bInput' = [kind |-> "key", arg |-> key]
  /\ bCalls' = (IF key \in {"Enter", " "} /\ ~isDisabled(bProps.disabled)
                  THEN <<Call("onPress", FALSE, key)>> ELSE <<>>)
               \o <<Call("onKeyPress", FALSE, key)>>
  /\ UNCHANGED <<bProps, bRendered, bEverDisabled>>

\* handleKeyPress(e)
buttonHandleKeyPress(key) ==
  /\ bInput' = [kind |-> "key", arg |-> key]
  /\ bCalls' = (IF key \in ActivationKeys /\ ~isDisabled(bProps.disabled)
                  THEN <<Call("onPress", FALSE, key)>> ELSE <<>>)
               \o <<Call("onKeyPress", FALSE, key)>>
  /\ UNCHANGED <<bProps, bRendered, bEverDisabled>>

ButtonHandleKeyPress(key) == buttonHandleKeyPress(key) /\ ButtonFrame

\* handleAccessibilityAction(event)
buttonHandleAccessibilityAction(actionName) ==
  /\ bInput' = [kind |-> "action", arg |-> actionName]
  /\ bCalls' = (IF actionName \in ActivateActions /\ ~isDisabled(bProps.disabled)
                  THEN <<Call("onPress", FALSE, actionName)>> ELSE <<>>)
               \o <<Call("onAccessibilityAction", FALSE, actionName)>>
  /\ UNCHANGED <<bProps, bRendered, bEverDisabled>>

ButtonHandleAccessibilityAction(actionName) == buttonHandleAccessibilityAction(actionName) /\ ButtonFrame

\* The caller renders the Button again with other props.
buttonRerender(props) ==
  /\ bProps' = props
  /\ bRendered' = ButtonRenderOf(props)
  /\ bInput' = NoInput
  /\ bCalls' = <<>>
  /\ bEverDisabled' = (bEverDisabled \/ isDisabled(props.disabled))

ButtonRerender(props) == props # bProps /\ buttonRerender(props) /\ ButtonFrame

ButtonInit ==
  /\ bProps \in ButtonProps
  /\ bRendered = ButtonRenderOf(bProps)
  /\ bInput = NoInput
  /\ bCalls = <<>>
  /\ bEverDisabled = isDisabled(bProps.disabled)

ButtonNext ==
  \/ ButtonPress
  \/ \E key \in Keys : ButtonHandleKeyPress(key)
  \/ \E actionName \in ActionNames : ButtonHandleAccessibilityAction(actionName)
  \/ \E props \in ButtonProps : ButtonRerender(props)

\* C9: a disabled Button never calls onPress, whatever the input (pointer
\* press, activation key, activate/click/magicTap action) and with or without
\* focusableWhenDisabled; rendered enabled again, each such input calls
\* onPress exactly once.
C9_DisabledButtonBlocksOnPress ==
  /\ isDisabled(bProps.disabled) => CallsOf(bCalls, "onPress") = <<>>
  /\ (~isDisabled(bProps.disabled) /\ IsActivationInput(bInput))
       => Len(CallsOf(bCalls, "onPress")) = 1

C9_Witness ==
  /\ isDisabled(bProps.disabled) /\ bProps.focusableWhenDisabled
  /\ bInput = [kind |-> "key", arg |-> "Enter"]
  /\ bCalls = <<Call("onKeyPress", FALSE, "Enter")>>

C9_WitnessRestored ==
  /\ bEverDisabled /\ ~isDisabled(bProps.disabled)
  /\ bInput = [kind |-> "action", arg |-> "activate"]
  /\ Len(CallsOf(bCalls, "onPress")) = 1

----------------------------------------------------------------------------
(* A Button and a Toggle side by side: a screen renders both from the same *)
(* disabled, focusableWhenDisabled, tabIndex and accessibilityState, the   *)
(* Toggle uncontrolled, and the host delivers every input to both.         *)

ControlsFrame == UNCHANGED <<handlerVars, propsVars, refVars, slotVars, asChildVars>>

\* The Toggle's props for the flags the screen renders both controls from.
ToggleWith(flags) ==
  [pressed |-> Undefined, defaultPressed |-> FALSE,
   disabled |-> flags.disabled, focusableWhenDisabled |-> flags.focusableWhenDisabled,
   tabIndex |-> flags.tabIndex, accessibilityState |-> flags.accessibilityState]

ControlsPress == buttonOnPress /\ handlePress /\ ControlsFrame

ControlsKeyPress(key) ==
  buttonHandleKeyPress(key) /\ toggleHandleKeyPress(key) /\ ControlsFrame

ControlsAccessibilityAction(actionName) ==
  /\ buttonHandleAccessibilityAction(actionName)
  /\ toggleHandleAccessibilityAction(actionName)
  /\ ControlsFrame

ControlsRender == toggleRender /\ UNCHANGED buttonVars /\ ControlsFrame

ControlsRerender(flags) ==
  /\ flags # bProps
  /\ buttonRerender(flags)
  /\ toggleRerender(ToggleWith(flags))
  /\ ControlsFrame

ControlsInit ==
  /\ bProps \in ButtonProps
  /\ bRendered = ButtonRenderOf(bProps)
  /\ bInput = NoInput
  /\ bCalls = <<>>
  /\ bEverDisabled = isDisabled(bProps.disabled)
  /\ tProps = ToggleWith(bProps)
  /\ uncontrolledState = tProps.defaultPressed
  /\ tRendered = ToggleRenderOf(tProps, uncontrolledState)
  /\ tInput = NoInput
  /\ tCalls = <<>>
  /\ tHist = [n |-> 0, stale |-> FALSE, everControlled |-> FALSE,
              everDisabled |-> isDisabled(tProps.disabled)]

ControlsNext ==
  \/ ControlsPress
  \/ \E key \in Keys : ControlsKeyPress(key)
  \/ \E actionName \in ActionNames : ControlsAccessibilityAction(actionName)
  \/ ControlsRender
  \/ \E flags \in ButtonProps : ControlsRerender(flags)

\* C21: an enabled Button calls onPress for a key event exactly when the key
\* is 'Enter', ' ', 'Spacebar', 'Space', 'Select', 'Return', 'OK' or 'Accept',
\* and for an accessibility action exactly when its name is 'activate',
\* 'click' or 'magicTap'; an enabled Toggle calls its change callback for
\* exactly the same keys and actions.
C21_ExactActivationSets ==
  LET keys    == {"Enter", " ", "Spacebar", "Space", "Select", "Return", "OK", "Accept"}
      actions == {"activate", "click", "magicTap"}
  IN  /\ (bInput.kind = "key" /\ ~bRendered.isDisabled)
           => (CallsOf(bCalls, "onPress") # <<>> <=> bInput.arg \in keys)
      /\ (bInput.kind = "action" /\ ~bRendered.isDisabled)
           => (CallsOf(bCalls, "onPress") # <<>> <=> bInput.arg \in actions)
      /\ (tInput.kind = "key" /\ ~tRendered.isDisabled)
           => (CallsOf(tCalls, "onPressedChange") # <<>> <=> tInput.arg \in keys)
      /\ (tInput.kind = "action" /\ ~tRendered.isDisabled)
           => (CallsOf(tCalls, "onPressedChange") # <<>> <=> tInput.arg \in actions)

C21_Witness ==
  /\ bInput = [kind |-> "key", arg |-> "Accept"] /\ tInput = bInput
  /\ ~bRendered.isDisabled /\ ~tRendered.isDisabled
  /\ CallsOf(bCalls, "onPress") # <<>>
  /\ CallsOf(tCalls, "onPressedChange") # <<>>

C21_WitnessOtherAction ==
  /\ bInput = [kind |-> "action", arg |-> "longpress"] /\ tInput = bInput
  /\ ~bRendered.isDisabled /\ ~tRendered.isDisabled
  /\ bCalls = <<Call("onAccessibilityAction", FALSE, "longpress")>>
  /\ tCalls = <<Call("onAccessibilityAction", FALSE, "longpress")>>

\* The raw handler a key event or an accessibility action is passed on to.
RawHandlerOf(input) ==
  IF input.kind = "key" THEN "onKeyPress" ELSE "onAccessibilityAction"

\* The calls end with the one call that passes the input on, and hold no
\* other call of a raw handler.
ForwardedOnceAtEnd(calls, input) ==
  LET forward == Call(RawHandlerOf(input), FALSE, input.arg)
  IN  /\ calls # <<>>
      /\ calls[Len(calls)] = forward
      /\ CallsOf(calls, "onKeyPress") \o CallsOf(calls, "onAccessibilityAction") = <<forward>>

\* C22: every key event reaches the caller's onKeyPress exactly once and every
\* accessibility action the caller's onAccessibilityAction exactly once, as
\* the last call of the handler (after the activation the input triggered, if
\* any), in the Button and in the Toggle; a key outside the activation keys or
\* an action outside the activation actions leaves the Toggle's state as it
\* was and makes no other call: neither onPress nor onPressedChange.
C22_RawHandlersAlwaysForwarded ==
  [][ /\ bInput'.kind \in {"key", "action"}
           => /\ ForwardedOnceAtEnd(bCalls', bInput')
              /\ ~IsActivationInput(bInput')
                   => bCalls' = <<Call(RawHandlerOf(bInput'), FALSE, bInput'.arg)>>
      /\ tInput'.kind \in {"key", "action"}
           => /\ ForwardedOnceAtEnd(tCalls', tInput')
              /\ ~IsActivationInput(tInput')
                   => /\ tCalls' = <<Call(RawHandlerOf(tInput'), FALSE, tInput'.arg)>>
                      /\ uncontrolledState' = uncontrolledState
                      /\ Exposed' = Exposed
    ]_vars

C22_Witness ==
  /\ tInput = [kind |-> "key", arg |-> "Select"] /\ bInput = tInput
  /\ ~tRendered.isDisabled /\ ~bRendered.isDisabled
  /\ Len(tCalls) = 2 /\ tCalls[1].fn = "onPressedChange" /\ tCalls[2].fn = "onKeyPress"
  /\ Len(bCalls) = 2 /\ bCalls[1].fn = "onPress" /\ bCalls[2].fn = "onKeyPress"

C22_WitnessOtherKey ==
  /\ tInput = [kind |-> "key", arg |-> "Tab"] /\ bInput = tInput
  /\ tCalls = <<Call("onKeyPress", FALSE, "Tab")>> /\ bCalls = tCalls
  /\ tHist.n > 0

\* What the focus props of a control must be for the props it is rendered with.
FocusPropsFollow(props, focusable, tabIndex, accessibilityState) ==
  LET disabled == props.disabled = <<TRUE>>
      expected == ~disabled \/ props.focusableWhenDisabled
  IN  /\ focusable = expected
      /\ tabIndex = (IF props.tabIndex # <<>> THEN props.tabIndex[1]
                     ELSE IF expected THEN 0 ELSE -1)
      /\ accessibilityState.disabled = disabled

\* C23: whatever re-renders came before, the focusable, tabIndex and
\* accessibilityState.disabled the Button and the Toggle hand to the host
\* follow from the current props alone: focusable iff not disabled or
\* focusableWhenDisabled; tabIndex the caller's when given, else 0 when
\* focusable and -1 when not; accessibilityState.disabled iff disabled is true.
C23_FocusPropsFollowCurrentProps ==
  /\ FocusPropsFollow(bProps, bRendered.focusable, bRendered.tabIndex,
                      bRendered.accessibilityState)
  /\ FocusPropsFollow(tProps, tRendered.isFocusable, tRendered.tabIndex,
                      tRendered.accessibilityState)

\* Disabled before, enabled now, the caller giving no tabIndex.
C23_Witness ==
  /\ bEverDisabled /\ tHist.everDisabled
  /\ bProps.disabled = Some(FALSE) /\ bProps.tabIndex = Undefined
  /\ bRendered.focusable /\ bRendered.tabIndex = 0
  /\ tRendered.isFocusable /\ tRendered.tabIndex = 0
  /\ tHist.n > 0

\* Disabled and out of the focus order, the caller asking for tabIndex 0.
C23_WitnessCallerTabIndex ==
  /\ bProps.disabled = Some(TRUE) /\ ~bProps.focusableWhenDisabled
  /\ bProps.tabIndex = Some(0)
  /\ ~bRendered.focusable /\ bRendered.tabIndex = 0
  /\ ~tRendered.isFocusable /\ tRendered.tabIndex = 0
  /\ bRendered.accessibilityState.disabled /\ tRendered.accessibilityState.disabled

\* Disabled but kept focusable.
C23_WitnessFocusableWhenDisabled ==
  /\ bProps.disabled = Some(TRUE) /\ bProps.focusableWhenDisabled
  /\ bProps.tabIndex = Undefined
  /\ tRendered.isFocusable /\ tRendered.tabIndex = 0 /\ bRendered.tabIndex = 0
  /\ bInput.kind = "key"

----------------------------------------------------------------------------
(* JavaScript values, as far as the mergers tell them apart. id is the     *)
(* identity of an input value (1, 2, ...); a merged handler has the number *)
(* of its creation as id and the pair it closes over as items.             *)

Value(t, id, fields, items) == [t |-> t, id |-> id, fields |-> fields, items |-> items]

UndefinedV == Value("undefined", 0, <<>>, <<>>)

\* A primitive value (string, number, boolean); Prim(0) is a falsy one.
Prim(i) == Value("prim", i, <<>>, <<>>)

Fn(i) == Value("fn", i, <<>>, <<>>)

MergedFn(n, primitive, consumer) == Value("merged", n, <<>>, <<primitive, consumer>>)

\* An object with the given identity and own fields (field -> primitive, 0
\* standing for undefined).
Obj(i, fields) == Value("obj", i, fields, <<>>)

\* An array with the given identity and elements.
Arr(i, items) == Value("arr", i, <<>>, items)

\* typeof v === 'function'
IsFunction(v) == v.t \in {"fn", "merged"}

\* typeof v === 'object' (null apart)
IsObject(v) == v.t \in {"obj", "arr"}

\* v can be the key of a WeakMap
IsWeakKey(v) == IsFunction(v) \/ IsObject(v)

\* !v
Falsy(v) == v.t \in {"undefined", "null"} \/ (v.t = "prim" /\ v.id = 0)

----------------------------------------------------------------------------
(* mergeHandlers                                                           *)

\* Number of distinct handler functions the callers pass.
NumHandlers == 2

\* Number of merged handlers the model lets the cache create.
MaxMerged == 3

HandlerFns == {Fn(i) : i \in 1..NumHandlers}

HandlerArgs == HandlerFns \cup {UndefinedV}

\* The handlers with an even id set defaultPrevented on the event they get.
Prevents(h) == h.id % 2 = 0

\* The handlers Button.Root and Toggle.Root create in a render, told apart by
\* the prop they are passed as (0: onStartShouldSetResponder, 1:
\* onTerminationRequest, 2: the Button's onResponderRelease, 3: the Toggle's
\* handleToggle, 4: the Toggle's handleKeyPress) and by the isDisabled and
\* isChecked they close over. None of them sets defaultPrevented.
RootFn(prop, disabled, checked) ==
  Fn(101 + 2 * (4 * prop + (IF disabled THEN 2 ELSE 0) + (IF checked THEN 1 ELSE 0)))

IsRootFn(h) == h.t = "fn" /\ h.id > 100

RootFnProp(h) == ((h.id - 101) \div 2) \div 4

RootFnDisabled(h) == (((h.id - 101) \div 2) % 4) \div 2 = 1

RootFnChecked(h) == ((h.id - 101) \div 2) % 2 = 1

\* What a call of a handler that is no merged handler returns, true as
\* Prim(1) and false as Prim(0): () => !isDisabled, () => true and nothing for
\* the Roots' handlers; a caller's handler with an odd id returns true, one
\* with an even id false.
ReturnOf(h) ==
  IF ~IsRootFn(h) THEN Prim(h.id % 2)
  ELSE IF RootFnProp(h) = 0 THEN Prim(IF RootFnDisabled(h) THEN 0 ELSE 1)
  ELSE IF RootFnProp(h) = 1 THEN Prim(1)
  ELSE UndefinedV

\* handlerCache.get(primitive)?.get(consumer) is defined
Cached(cache, primitive, consumer) ==
  /\ primitive \in DOMAIN cache
  /\ consumer \in DOMAIN cache[primitive]

\* consumerCache.set(consumer, merged), consumerCache created on demand
CacheSet(cache, primitive, consumer, merged) ==
  LET consumerCache == IF primitive \in DOMAIN cache THEN cache[primitive] ELSE <<>>
      written == [g \in DOMAIN consumerCache \cup {consumer} |->
                    IF g = consumer THEN merged ELSE consumerCache[g]]
  IN  [f \in DOMAIN cache \cup {primitive} |->
         IF f = primitive THEN written ELSE cache[f]]

\* handlerCache.get(primitive), created empty when missing
WithConsumerCache(cache, primitive) ==
  IF primitive \in DOMAIN cache
    THEN cache
    ELSE [f \in DOMAIN cache \cup {primitive} |-> IF f = primitive THEN <<>> ELSE cache[f]]

Returned(result, cache, next) ==
  [result |-> result, cache |-> cache, next |-> next, threw |-> FALSE]

\* WeakMap.prototype.set throws a TypeError when the key is no object.
Threw(cache, next) ==
  [result |-> UndefinedV, cache |-> cache, next |-> next, threw |-> TRUE]

\* A mergeHandlers that returns nothing unless both handlers are present.
mergeHandlers_DropsLoneHandler(primitive, consumer, cache, next) ==
  IF Falsy(primitive) \/ Falsy(consumer) THEN Returned(UndefinedV, cache, next)
  ELSE IF Cached(cache, primitive, consumer)
    THEN Returned(cache[primitive][consumer], cache, next)
  ELSE IF ~IsWeakKey(consumer)
    THEN Threw(WithConsumerCache(cache, primitive), next + 1)
    ELSE Returned(MergedFn(next + 1, primitive, consumer),
                  CacheSet(cache, primitive, consumer, MergedFn(next + 1, primitive, consumer)),
                  next + 1)

\* A mergeHandlers that builds a new mergedHandler on every call.
mergeHandlers_NoLookup(primitive, consumer, cache, next) ==
  IF Falsy(primitive) THEN Returned(consumer, cache, next)
  ELSE IF Falsy(consumer) THEN Returned(primitive, cache, next)
  ELSE IF ~IsWeakKey(consumer)
    THEN Threw(WithConsumerCache(cache, primitive), next + 1)
    ELSE Returned(MergedFn(next + 1, primitive, consumer),
                  CacheSet(cache, primitive, consumer, MergedFn(next + 1, primitive, consumer)),
                  next + 1)

\* mergeHandlers(primitive, consumer): the value returned (or the error
\* thrown), the cache and the number of closures created after the call.
mergeHandlers(primitive, consumer, cache, next) ==
  IF Falsy(primitive) THEN Returned(consumer, cache, next)
  ELSE IF Falsy(consumer) THEN Returned(primitive, cache, next)
  ELSE IF Cached(cache, primitive, consumer)
    THEN Returned(cache[primitive][consumer], cache, next)
  ELSE IF ~IsWeakKey(consumer)
    THEN Threw(WithConsumerCache(cache, primitive), next + 1)
    ELSE Returned(MergedFn(next + 1, primitive, consumer),
                  CacheSet(cache, primitive, consumer, MergedFn(next + 1, primitive, consumer)),
                  next + 1)

\* An event as a handler sees it: its identity and its defaultPrevented flag.
Events == [id : {"e1"}, defaultPrevented : OptBool]

\* A mergedHandler that runs the consumer first and never looks at the flag.
mergedHandler_ConsumerFirst(primitive, consumer, event) ==
  [event |-> [event EXCEPT !.defaultPrevented =
                IF Prevents(primitive) \/ Prevents(consumer) THEN Some(TRUE) ELSE @],
   log   |-> <<[fn |-> consumer, event |-> event.id], [fn |-> primitive, event |-> event.id]>>,
   returns |-> UndefinedV]

\* A mergedHandler that hands back what the primitive handler returned.
mergedHandler_ReturnsPrimitive(primitive, consumer, event) ==
  LET afterPrimitive ==
        [event EXCEPT !.defaultPrevented = IF Prevents(primitive) THEN Some(TRUE) ELSE @]
      afterConsumer ==
        [afterPrimitive EXCEPT !.defaultPrevented = IF Prevents(consumer) THEN Some(TRUE) ELSE @]
  IN  IF afterPrimitive.defaultPrevented # Some(TRUE)
        THEN [event |-> afterConsumer,
              log   |-> <<[fn |-> primitive, event |-> event.id],
                          [fn |-> consumer,  event |-> event.id]>>,
              returns |-> ReturnOf(primitive)]
        ELSE [event |-> afterPrimitive,
              log   |-> <<[fn |-> primitive, event |-> event.id]>>,
              returns |-> ReturnOf(primitive)]

\* mergedHandler(event): primitive(e); if (!e?.defaultPrevented) consumer(e).
\* The event after the call, the handlers called, in order, and the value the
\* call returns: the function has no return statement.
mergedHandler(primitive, consumer, event) ==
  LET afterPrimitive ==
        [event EXCEPT !.defaultPrevented = IF Prevents(primitive) THEN Some(TRUE) ELSE @]
      afterConsumer ==
        [afterPrimitive EXCEPT !.defaultPrevented = IF Prevents(consumer) THEN Some(TRUE) ELSE @]
  IN  IF afterPrimitive.defaultPrevented # Some(TRUE)
        THEN [event |-> afterConsumer,
              log   |-> <<[fn |-> primitive, event |-> event.id],
                          [fn |-> consumer,  event |-> event.id]>>,
              returns |-> UndefinedV]
        ELSE [event |-> afterPrimitive,
              log   |-> <<[fn |-> primitive, event |-> event.id]>>,
              returns |-> UndefinedV]

NoCall == [primitive |-> UndefinedV, consumer |-> UndefinedV, result |-> UndefinedV, calls |-> 0]

NoRun == [handler |-> UndefinedV, event |-> [id |-> "none", defaultPrevented |-> Undefined],
          after |-> [id |-> "none", defaultPrevented |-> Undefined], log |-> <<>>]

\* A caller calls mergeHandlers(primitive, consumer).
MergeHandlersCall(primitive, consumer) ==
  LET out == mergeHandlers(primitive, consumer, handlerCache, hNext)
      pair == <<primitive, consumer>>
  IN  /\ out.next <= MaxMerged
      /\ handlerCache' = out.cache
      /\ hNext' = out.next
      /\ hCall' = [primitive |-> primitive, consumer |-> consumer, result |-> out.result,
                   calls |-> IF pair \in DOMAIN hFirst THEN 2 ELSE 1]
      /\ hFirst' = IF pair \in DOMAIN hFirst \/ Falsy(primitive) \/ Falsy(consumer)
                     THEN hFirst
                     ELSE [q \in DOMAIN hFirst \cup {pair} |->
                             IF q = pair THEN out.result ELSE hFirst[q]]
      /\ hRun' = NoRun
      /\ HandlersFrame

\* The host invokes a merged handler it was given with an event.
InvokeMerged(primitive, consumer, event) ==
  /\ Cached(handlerCache, primitive, consumer)
  /\ LET out == mergedHandler(primitive, consumer, event)
     IN  hRun' = [handler |-> handlerCache[primitive][consumer], event |-> event,
                  after |-> out.event, log |-> out.log]
  /\ hCall' = NoCall
  /\ UNCHANGED <<handlerCache, hNext, hFirst>>
  /\ HandlersFrame

HandlersInit ==
  /\ handlerCache = <<>>
  /\ hNext = 0
  /\ hCall = NoCall
  /\ hFirst = <<>>
  /\ hRun = NoRun

HandlersNext ==
  \/ \E primitive \in HandlerArgs, consumer \in HandlerArgs :
       MergeHandlersCall(primitive, consumer)
  \/ \E primitive \in HandlerFns, consumer \in HandlerFns, event \in Events :
       InvokeMerged(primitive, consumer, event)

\* The last invocation ran the merged handler of (primitive, consumer).
RanMerged == hRun.handler.t = "merged"

RunPrimitive == hRun.handler.items[1]

RunConsumer == hRun.handler.items[2]

C5_WitnessPrevented ==
  /\ RanMerged
  /\ Prevents(RunPrimitive) /\ hRun.event.defaultPrevented = Undefined
  /\ Len(hRun.log) = 1

\* C6: mergeHandlers(f, g) with both handlers present returns the function the
\* first call for that pair returned; the cache is written only on a miss, an
\* entry is never replaced and calls for other pairs leave it alone.
C6_StableMergedIdentity ==
  /\ []( (~Falsy(hCall.primitive) /\ ~Falsy(hCall.consumer))
           => /\ hCall.result = hFirst[<<hCall.primitive, hCall.consumer>>]
              /\ Cached(handlerCache, hCall.primitive, hCall.consumer)
              /\ handlerCache[hCall.primitive][hCall.consumer] = hCall.result )
  /\ [][ /\ \A f \in HandlerFns, g \in HandlerFns :
              Cached(handlerCache, f, g)
                => /\ Cached(handlerCache', f, g)
                   /\ handlerCache'[f][g] = handlerCache[f][g]
         /\ handlerCache' # handlerCache
              => ~Cached(handlerCache, hCall'.primitive, hCall'.consumer) ]_vars

C6_Witness ==
  /\ hCall.calls = 2
  /\ hCall.result.t = "merged" /\ hCall.result.id = 1
  /\ hNext = 3

\* The last step was a call of mergeHandlers with a handler missing.
LoneHandlerCall == hCall.calls > 0 /\ (Falsy(hCall.primitive) \/ Falsy(hCall.consumer))

\* C11: mergeHandlers(f, undefined) returns f itself, mergeHandlers(undefined,
\* g) returns g itself and mergeHandlers(undefined, undefined) returns
\* undefined; such a call creates no merged handler and leaves the cache as it
\* was.
C11_LoneHandlerReturnedAsIs ==
  /\ [](LoneHandlerCall =>
          /\ Falsy(hCall.primitive) => hCall.result = hCall.consumer
          /\ (~Falsy(hCall.primitive) /\ Falsy(hCall.consumer)) => hCall.result = hCall.primitive
          /\ hCall.result.t # "merged")
  /\ [][LoneHandlerCall' => (handlerCache' = handlerCache /\ hNext' = hNext)]_vars

C11_Witness ==
  /\ hCall.calls = 1
  /\ hCall.primitive = Fn(1) /\ hCall.consumer = UndefinedV /\ hCall.result = Fn(1)
  /\ hNext = 2 /\ Cached(handlerCache, Fn(1), Fn(2))

C11_WitnessConsumerOnly ==
  /\ hCall.calls = 1
  /\ hCall.primitive = UndefinedV /\ hCall.consumer = Fn(2) /\ hCall.result = Fn(2)

C11_WitnessNeither ==
  /\ hCall.calls = 1 /\ hNext = 1
  /\ hCall.primitive = UndefinedV /\ hCall.consumer = UndefinedV /\ hCall.result = UndefinedV

----------------------------------------------------------------------------
(* mergeProps                                                              *)

CRITICAL ==
  {"accessibilityRole", "accessibilityHint", "accessibilityElementsHidden",
   "accessibilityLiveRegion", "importantForAccessibility", "focusable", "role",
   "tabIndex", "aria-expanded", "aria-selected", "aria-checked", "aria-disabled",
   "aria-hidden", "aria-controls", "aria-labelledby", "aria-describedby"}

\* key === 'accessibilityState' || key === 'accessibilityValue'
NestedKeys == {"accessibilityState", "accessibilityValue"}

\* The keys of the model's bags, in the order for...in visits them.
KeyOrder ==
  <<"onStartShouldSetResponder", "onResponderRelease", "onTerminationRequest",
    "accessible", "accessibilityRole", "accessibilityHint", "focusable",
    "importantForAccessibility", "onKeyPress", "hitSlop",
    "testID", "onPress", "style", "accessibilityState">>

\* The keys the bags of a call of mergeProps on its own are drawn from.
PropKeys == {"accessibilityRole", "testID", "onPress", "style", "accessibilityState"}

\* key.startsWith('on')
StartsWithOn(key) ==
  key \in {"onPress", "onKeyPress", "onStartShouldSetResponder", "onResponderRelease",
           "onTerminationRequest"}

\* The values a caller or a primitive puts under a key.
ValuesFor(key) ==
  CASE key = "accessibilityRole"  -> {UndefinedV, Prim(1), Prim(2)}
    [] key = "testID"             -> {UndefinedV, Prim(1), Prim(2)}
    [] key = "onPress"            -> {UndefinedV, Fn(1), Fn(2), Prim(1)}
    [] key = "style"              -> {UndefinedV, Prim(0), Obj(1, [f \in {"opacity"} |-> 1]),
                                      Obj(2, [f \in {"color"} |-> 1]),
                                      Arr(3, <<Obj(2, [f \in {"color"} |-> 1]),
                                               Obj(1, [f \in {"opacity"} |-> 1])>>)}
    [] key = "accessibilityState" -> {UndefinedV, Obj(4, [f \in {"disabled"} |-> 1]),
                                      Obj(5, [f \in {"disabled", "busy"} |-> 2]),
                                      Obj(6, [f \in {"disabled", "busy"} |->
                                                IF f = "busy" THEN 0 ELSE 1])}

\* Largest number of keys of the injected bag and of the child bag.
MaxInjectedKeys == 2

MaxChildKeys == 2

\* The property bags with at most n keys.
Bags(n) ==
  UNION { [keys -> UNION {ValuesFor(k) : k \in keys}] : keys \in {K \in SUBSET PropKeys : Cardinality(K) <= n} }

WellTyped(bag) == \A k \in DOMAIN bag : bag[k] \in ValuesFor(k)

\* bag[key], undefined when the bag has no such key
Get(bag, key) == IF key \in DOMAIN bag THEN bag[key] ELSE UndefinedV

\* bag[key] = value
Put(bag, key, value) ==
  [k \in DOMAIN bag \cup {key} |-> IF k = key THEN value ELSE bag[k]]

\* obj[field] as a comparable value: <<>> (undefined) when the object has no
\* such field or holds undefined under it
Field(obj, field) ==
  IF field \in DOMAIN obj.fields /\ obj.fields[field] # 0 THEN <<obj.fields[field]>> ELSE <<>>

\* A shallow merge that spreads the child over the injected object.
mergeObjectsShallow_ChildWins(childObj, injectedObj) ==
  IF Falsy(childObj) \/ ~IsObject(childObj) THEN injectedObj
  ELSE IF Falsy(injectedObj) \/ ~IsObject(injectedObj) THEN childObj
  ELSE IF \A field \in DOMAIN injectedObj.fields :
            Field(childObj, field) = Field(injectedObj, field)
    THEN childObj
    ELSE Obj(0, [field \in DOMAIN childObj.fields \cup DOMAIN injectedObj.fields |->
                   IF field \in DOMAIN childObj.fields
                     THEN childObj.fields[field]
                     ELSE injectedObj.fields[field]])

\* mergeObjectsShallow(childObj, injectedObj)
mergeObjectsShallow(childObj, injectedObj) ==
  IF Falsy(childObj) \/ ~IsObject(childObj) THEN injectedObj
  ELSE IF Falsy(injectedObj) \/ ~IsObject(injectedObj) THEN childObj
  ELSE IF \A field \in DOMAIN injectedObj.fields :
            Field(childObj, field) = Field(injectedObj, field)
    THEN childObj
    ELSE Obj(0, [field \in DOMAIN childObj.fields \cup DOMAIN injectedObj.fields |->
                   IF field \in DOMAIN injectedObj.fields
                     THEN injectedObj.fields[field]
                     ELSE childObj.fields[field]])

\* A pass of the loop that assigns result[key] without the
\* `if (!cloned) { result = { ...child }; cloned = true; }` block before it.
ResolvedInPlace(write, value, cache, next, threw) ==
  [write |-> write, clone |-> FALSE, value |-> value, cache |-> cache, next |-> next,
   threw |-> threw]

\* What one pass of the loop does for a key: whether it assigns result[key]
\* (every assignment comes after the `if (!cloned)` block), the value it
\* assigns, and the handler cache it leaves.
Resolved(write, value, cache, next, threw) ==
  [write |-> write, clone |-> write, value |-> value, cache |-> cache, next |-> next,
   threw |-> threw]

\* accessibilityState / accessibilityValue branch
resolveNested(injectedValue, childValue, cache, next) ==
  LET mergedObject == mergeObjectsShallow(childValue, injectedValue)
  IN  Resolved(mergedObject # childValue, mergedObject, cache, next, FALSE)

\* A CRITICAL branch that treats the key as an ordinary one (child wins).
resolveCritical_ChildWins(injectedValue, childValue, cache, next) ==
  Resolved(childValue = UndefinedV, injectedValue, cache, next, FALSE)

\* CRITICAL branch
resolveCritical(injectedValue, childValue, cache, next) ==
  Resolved(childValue # injectedValue, injectedValue, cache, next, FALSE)

\* handler branch
resolveHandler(injectedValue, childValue, cache, next) ==
  LET out == mergeHandlers(injectedValue, childValue, cache, next)
  IN  Resolved(~out.threw /\ out.result # childValue, out.result, out.cache, out.next, out.threw)

\* A style branch that puts the child's styles before the injected one.
resolveStyle_ChildFirst(injectedValue, childValue, cache, next) ==
  Resolved(TRUE,
           IF Falsy(childValue) THEN injectedValue
           ELSE IF childValue.t = "arr" THEN Arr(0, childValue.items \o <<injectedValue>>)
           ELSE Arr(0, <<childValue, injectedValue>>),
           cache, next, FALSE)

\* style branch
resolveStyle(injectedValue, childValue, cache, next) ==
  Resolved(TRUE,
           IF Falsy(childValue) THEN injectedValue
           ELSE IF childValue.t = "arr" THEN Arr(0, <<injectedValue>> \o childValue.items)
           ELSE Arr(0, <<injectedValue, childValue>>),
           cache, next, FALSE)

\* An ordinary-key branch that assigns result[key] without cloning first.
resolveOrdinary_InPlace(injectedValue, childValue, cache, next) ==
  ResolvedInPlace(childValue = UndefinedV /\ injectedValue # UndefinedV, injectedValue,
                  cache, next, FALSE)

\* An ordinary-key branch in which the injected value always wins.
resolveOrdinary_InjectedWins(injectedValue, childValue, cache, next) ==
  Resolved(TRUE, injectedValue, cache, next, FALSE)

\* ordinary-key branch
resolveOrdinary(injectedValue, childValue, cache, next) ==
  Resolved(childValue = UndefinedV /\ injectedValue # UndefinedV, injectedValue, cache, next, FALSE)

\* A loop body without `if (injectedValue === undefined) continue`.
resolveKey_NoSkip(key, injectedValue, childValue, cache, next) ==
  IF key \in NestedKeys THEN resolveNested(injectedValue, childValue, cache, next)
  ELSE IF key \in CRITICAL THEN resolveCritical(injectedValue, childValue, cache, next)
  ELSE IF StartsWithOn(key) /\ IsFunction(injectedValue)
    THEN resolveHandler(injectedValue, childValue, cache, next)
  ELSE IF key = "style" THEN resolveStyle(injectedValue, childValue, cache, next)
  ELSE resolveOrdinary(injectedValue, childValue, cache, next)

\* The body of `for (const key in injected)`.
resolveKey(key, injectedValue, childValue, cache, next) ==
  IF injectedValue = UndefinedV THEN Resolved(FALSE, UndefinedV, cache, next, FALSE)
  ELSE IF key \in NestedKeys THEN resolveNested(injectedValue, childValue, cache, next)
  ELSE IF key \in CRITICAL THEN resolveCritical(injectedValue, childValue, cache, next)
  ELSE IF StartsWithOn(key) /\ IsFunction(injectedValue)
    THEN resolveHandler(injectedValue, childValue, cache, next)
  ELSE IF key = "style" THEN resolveStyle(injectedValue, childValue, cache, next)
  ELSE resolveOrdinary(injectedValue, childValue, cache, next)

\* The loop from the i-th key on; acc is the state of the call so far: the
\* contents of the child object and of the object `result` refers to (the
\* child object itself until cloned), and the handler cache.
RECURSIVE mergePropsFrom(_, _, _)
mergePropsFrom(i, injected, acc) ==
  IF i > Len(KeyOrder) \/ acc.threw THEN acc
  ELSE IF KeyOrder[i] \notin DOMAIN injected THEN mergePropsFrom(i + 1, injected, acc)
  ELSE LET key     == KeyOrder[i]
           r       == resolveKey(key, injected[key], Get(acc.child, key), acc.cache, acc.next)
           cloned  == acc.cloned \/ r.clone
           written == IF r.write THEN Put(acc.props, key, r.value) ELSE acc.props
       IN  mergePropsFrom(i + 1, injected,
             [props  |-> written,
              child  |-> IF cloned THEN acc.child ELSE written,
              cloned |-> cloned,
              cache  |-> r.cache,
              next   |-> r.next,
              threw  |-> r.threw])

\* mergeProps(injected, child): result starts as the child object itself and
\* is cloned at the first write.
mergeProps(injected, child, cache, next) ==
  mergePropsFrom(1, injected,
    [props |-> child, child |-> child, cloned |-> FALSE, cache |-> cache, next |-> next,
     threw |-> FALSE])

NoResult == [status |-> "none", isChild |-> FALSE, props |-> <<>>]

\* A caller (Slot) calls mergeProps(injected, child).
MergePropsCall ==
  /\ mpResult.status = "none"
  /\ LET out == mergeProps(mpInjected, mpChild, handlerCache, hNext)
     IN  /\ mpResult' = IF out.threw
                          THEN [status |-> "threw", isChild |-> FALSE, props |-> <<>>]
                          ELSE [status |-> "returned", isChild |-> ~out.cloned, props |-> out.props]
         /\ mpChild' = out.child
         /\ handlerCache' = out.cache
         /\ hNext' = out.next
  /\ UNCHANGED <<mpInjected, hCall, hFirst, hRun>>
  /\ PropsFrame

PropsInit ==
  /\ mpInjected \in Bags(MaxInjectedKeys)
  /\ mpChild \in Bags(MaxChildKeys)
  /\ WellTyped(mpInjected) /\ WellTyped(mpChild)
  /\ mpResult = NoResult

PropsNext == MergePropsCall


----------------------------------------------------------------------------
(* mergeProps: properties                                                  *)

MergeReturned == mpResult.status = "returned"

\* The entries of a bag whose value is defined.
DefinedEntries(bag) == {<<k, bag[k]>> : k \in {q \in DOMAIN bag : bag[q] # UndefinedV}}

\* C4 as stated: for a critical key present in both bags with different
\* values, the merged bag holds the injected value.
C4_CriticalInjectedWins ==
  MergeReturned =>
    \A k \in CRITICAL \cap DOMAIN mpInjected \cap DOMAIN mpChild :
      mpInjected[k] # mpChild[k] => Get(mpResult.props, k) = mpInjected[k]

\* C4 (amended): for a critical key present in both bags with different
\* values, the injected one not being undefined, the merged bag holds the
\* injected value.
C4_CriticalDefinedInjectedWins ==
  MergeReturned =>
    \A k \in CRITICAL \cap DOMAIN mpInjected \cap DOMAIN mpChild :
      (mpInjected[k] # mpChild[k] /\ mpInjected[k] # UndefinedV)
        => Get(mpResult.props, k) = mpInjected[k]

C4_Witness ==
  /\ MergeReturned
  /\ Get(mpInjected, "accessibilityRole") = Prim(1)
  /\ Get(mpChild, "accessibilityRole") = Prim(2)
  /\ Get(mpResult.props, "accessibilityRole") = Prim(1)

\* The child's value if it is defined, the injected value otherwise.
ChildElseInjected(k) ==
  IF Get(mpChild, k) # UndefinedV THEN Get(mpChild, k) ELSE Get(mpInjected, k)

C7_WitnessFallback ==
  /\ MergeReturned
  /\ Get(mpInjected, "testID") = Prim(1)
  /\ "testID" \in DOMAIN mpChild /\ mpChild["testID"] = UndefinedV
  /\ Get(mpResult.props, "testID") = Prim(1)

\* C8: the merged bag keeps every child key, holds the child's value under
\* every key whose injected value is absent or undefined, and for bags that
\* share no key holds exactly the defined entries of both.
C8_ChildEntriesKept ==
  MergeReturned =>
    /\ DOMAIN mpChild \subseteq DOMAIN mpResult.props
    /\ \A k \in PropKeys :
         Get(mpInjected, k) = UndefinedV
           => /\ Get(mpResult.props, k) = Get(mpChild, k)
              /\ k \in DOMAIN mpResult.props <=> k \in DOMAIN mpChild
    /\ DOMAIN mpInjected \cap DOMAIN mpChild = {}
         => DefinedEntries(mpResult.props)
              = DefinedEntries(mpChild) \cup DefinedEntries(mpInjected)

C8_Witness ==
  /\ MergeReturned
  /\ "accessibilityRole" \in DOMAIN mpInjected /\ mpInjected["accessibilityRole"] = UndefinedV
  /\ Get(mpChild, "accessibilityRole") = Prim(2)
  /\ Get(mpResult.props, "accessibilityRole") = Prim(2)

C8_WitnessDisjoint ==
  /\ MergeReturned
  /\ DOMAIN mpInjected = {"onPress", "style"} /\ DOMAIN mpChild = {"testID", "accessibilityState"}
  /\ Cardinality(DefinedEntries(mpResult.props)) = 4

\* The field names of the nested accessibility objects.
FieldNames == {"disabled", "busy"}

C12_WitnessNoChildObject ==
  /\ MergeReturned
  /\ Get(mpInjected, "accessibilityState") = Obj(5, [f \in {"disabled", "busy"} |-> 2])
  /\ "accessibilityState" \notin DOMAIN mpChild
  /\ Get(mpResult.props, "accessibilityState") = Obj(5, [f \in {"disabled", "busy"} |-> 2])

\* mergeProps has been called (it returned or threw).
MergeCalled == mpResult.status # "none"

\* C13: for an event-callback key whose injected value is a function, the
\* call returns a bag that holds, under that key, the merged handler of the
\* injected and the child's function when the child holds a function there,
\* and the injected function itself when the child holds no function there.
C13_HandlerKeyComposed ==
  MergeCalled =>
    \A k \in {q \in DOMAIN mpInjected : StartsWithOn(q) /\ IsFunction(mpInjected[q])} :
      /\ MergeReturned
      /\ IF IsFunction(Get(mpChild, k))
           THEN /\ Get(mpResult.props, k).t = "merged"
                /\ Get(mpResult.props, k).items = <<mpInjected[k], mpChild[k]>>
           ELSE Get(mpResult.props, k) = mpInjected[k]

\* The styles a style value stands for, in order.
StylesOf(style) == IF style.t = "arr" THEN style.items ELSE <<style>>

\* C14: for the style key with a defined injected style, the merged bag
\* holds a new array of the injected style followed by the child's styles in
\* their order (the elements of the child's array, not the array); when the
\* child has no style it holds the injected style itself.
C14_StyleInjectedFirst ==
  MergeReturned =>
    (Get(mpInjected, "style") # UndefinedV =>
       LET merged == Get(mpResult.props, "style")
       IN  IF Falsy(Get(mpChild, "style"))
             THEN merged = mpInjected["style"]
             ELSE /\ merged.t = "arr" /\ merged.id = 0
                  /\ merged.items = <<mpInjected["style"]>> \o StylesOf(mpChild["style"]))

C14_Witness ==
  /\ MergeReturned
  /\ Get(mpInjected, "style") = Obj(1, [f \in {"opacity"} |-> 1])
  /\ Get(mpChild, "style").t = "arr"
  /\ Get(mpResult.props, "style")
       = Arr(0, <<Obj(1, [f \in {"opacity"} |-> 1]), Obj(2, [f \in {"color"} |-> 1]),
                  Obj(1, [f \in {"opacity"} |-> 1])>>)

C14_WitnessNoChildStyle ==
  /\ MergeReturned
  /\ Get(mpInjected, "style") = Obj(2, [f \in {"color"} |-> 1])
  /\ "style" \notin DOMAIN mpChild
  /\ Get(mpResult.props, "style") = Obj(2, [f \in {"color"} |-> 1])

\* C15: when every injected value is undefined or resolves to the very value
\* the child holds under its key, mergeProps returns the child bag object
\* itself; and a nested accessibility object of the merged bag is the child's
\* own object when the injected object reads the same under each of its keys.
C15_ChildBagReturnedWhenUnchanged ==
  MergeReturned =>
    /\ (\A k \in DOMAIN mpInjected :
          mpInjected[k] = UndefinedV \/ Get(mpResult.props, k) = Get(mpChild, k))
         => mpResult.isChild
    /\ \A k \in NestedKeys \cap DOMAIN mpInjected \cap DOMAIN mpChild :
         ( /\ IsObject(mpInjected[k]) /\ IsObject(mpChild[k])
           /\ \A f \in DOMAIN mpInjected[k].fields :
                Field(mpInjected[k], f) = Field(mpChild[k], f) )
           => Get(mpResult.props, k) = mpChild[k]

\* The values a bag holds, the elements of its arrays included.
ValuesIn(bag) ==
  {bag[k] : k \in DOMAIN bag}
    \cup UNION {{bag[k].items[i] : i \in DOMAIN bag[k].items} :
                 k \in {q \in DOMAIN bag : bag[q].t = "arr"}}

\* C16: a call of mergeProps leaves the injected bag and the child bag as
\* they were and changes nothing but the handler cache (and, here, the record
\* of its outcome); every object or array of the merged bag that is not a
\* fresh one is an object of the arguments with the contents it had.
C16_ArgumentsUntouched ==
  /\ [][ /\ mpInjected' = mpInjected
         /\ mpChild' = mpChild
         /\ UNCHANGED <<toggleVars, buttonVars, refVars, slotVars, hCall, hFirst, hRun>> ]_vars
  /\ [](MergeReturned =>
          \A v \in ValuesIn(mpResult.props) :
            (IsObject(v) /\ v.id # 0) => v \in ValuesIn(mpInjected) \cup ValuesIn(mpChild))

C16_Witness ==
  /\ MergeReturned /\ ~mpResult.isChild
  /\ hNext = 1
  /\ DOMAIN mpInjected = {"onPress", "style"}
  /\ Get(mpChild, "style").t = "arr"
  /\ Get(mpResult.props, "style").t = "arr" /\ Get(mpResult.props, "style").id = 0

\* C17: no call of mergeProps ends in an error, whatever the entries of the
\* two bags.
C17_NoErrorOutcome == mpResult.status # "threw"

----------------------------------------------------------------------------
(* mergeRefs. A ref is 0 (null or undefined), a callback ref or an object  *)
(* ref; what a ref has observed is the last argument of a callback ref and *)
(* the current of an object ref.                                           *)

\* Largest number of refs passed to mergeRefs.
MaxRefs == 3

CallbackRefs == {1, 2}

ObjectRefs == {3}

Refs == CallbackRefs \cup ObjectRefs

NoRef == 0

PossibleRefs == Refs \cup {NoRef}

\* The values a host hands to a ref: an instance, or null on unmount.
RefValues == {"node1", "node2", "null"}

RefLists == UNION {[1..n -> PossibleRefs] : n \in 0..MaxRefs}

\* A merged callback that stops at the first null ref.
mergedRef_StopsAtNull(refs, value, observed) ==
  LET live == IF \E i \in DOMAIN refs : refs[i] = NoRef
                THEN SubSeq(refs, 1, (CHOOSE i \in DOMAIN refs :
                                        refs[i] = NoRef /\ \A j \in 1..(i - 1) : refs[j] # NoRef) - 1)
                ELSE refs
  IN  [observed |-> [r \in Refs |-> IF \E i \in DOMAIN live : live[i] = r
                                      THEN value ELSE observed[r]],
       log      |-> [i \in DOMAIN live |-> [ref |-> live[i], value |-> value]]]

\* The loop of the merged callback from the i-th ref on.
RECURSIVE mergedRefFrom(_, _, _, _)
mergedRefFrom(i, refs, value, acc) ==
  IF i > Len(refs) THEN acc
  ELSE IF refs[i] = NoRef THEN mergedRefFrom(i + 1, refs, value, acc)
  ELSE mergedRefFrom(i + 1, refs, value,
         [observed |-> [acc.observed EXCEPT ![refs[i]] = value],
          log      |-> Append(acc.log, [ref |-> refs[i], value |-> value])])

\* (value) => { for (const ref of refs) ... }: what every ref has observed
\* after the call, and the refs written or called, in order.
mergedRef(refs, value, observed) ==
  mergedRefFrom(1, refs, value, [observed |-> observed, log |-> <<>>])

NoMerged == [made |-> FALSE, refs |-> <<>>]

NoRefRun == [done |-> FALSE, value |-> "none", log |-> <<>>]

\* A caller calls mergeRefs(...refs) and gets a new callback.
MergeRefsCall(refs) ==
  /\ rMerged' = [made |-> TRUE, refs |-> refs]
  /\ rRun' = NoRefRun
  /\ UNCHANGED rObserved
  /\ RefsFrame

\* The host calls the merged callback with an instance or with null.
InvokeMergedRef(value) ==
  /\ rMerged.made
  /\ LET out == mergedRef(rMerged.refs, value, rObserved)
     IN  /\ rObserved' = out.observed
         /\ rRun' = [done |-> TRUE, value |-> value, log |-> out.log]
  /\ UNCHANGED rMerged
  /\ RefsFrame

RefsInit ==
  /\ rMerged = NoMerged
  /\ rObserved = [r \in Refs |-> "unset"]
  /\ rRun = NoRefRun

RefsNext ==
  \/ \E refs \in RefLists : MergeRefsCall(refs)
  \/ \E value \in RefValues : InvokeMergedRef(value)

\* The refs of the list that are not null, in the order given.
LiveRefs(refs) == SelectSeq(refs, LAMBDA r : r # NoRef)

\* C18: an invocation of the merged callback with a value (null included)
\* hands that value to the non-null refs, each position once and in the order
\* given, and to nothing else; after it every non-null ref of the list has
\* last observed that value, and a ref outside the list is left as it was.
C18_RefsObserveLastValue ==
  /\ [](rRun.done =>
          /\ rRun.log = [i \in DOMAIN LiveRefs(rMerged.refs) |->
                           [ref |-> LiveRefs(rMerged.refs)[i], value |-> rRun.value]]
          /\ \A i \in DOMAIN rMerged.refs :
               rMerged.refs[i] # NoRef => rObserved[rMerged.refs[i]] = rRun.value)
  /\ [][\A r \in Refs :
          (\A i \in DOMAIN rMerged'.refs : rMerged'.refs[i] # r) => rObserved'[r] = rObserved[r]]_vars

C18_Witness ==
  /\ rRun.done /\ rRun.value = "null"
  /\ rMerged.refs = <<1, NoRef, 3>>
  /\ rObserved = [r \in Refs |-> IF r = 2 THEN "node2" ELSE "null"]
  /\ Len(rRun.log) = 2

----------------------------------------------------------------------------
(* Slot                                                                    *)

\* The keys the bags of a Slot render are drawn from, and how many a bag has.
SlotKeys == {"accessibilityRole", "onPress"}

MaxSlotKeys == 1

SlotBags == {bag \in Bags(MaxSlotKeys) : DOMAIN bag \subseteq SlotKeys /\ WellTyped(bag)}

Children(kind, props, ref) == [kind |-> kind, props |-> props, ref |-> ref]

\* What a caller can put between <Slot> and </Slot>: nothing, a string, two
\* or more elements (an array), a Fragment, or one element with props and ref.
SlotChildren ==
  {Children(kind, <<>>, NoRef) : kind \in {"none", "text", "many", "fragment"}}
    \cup {Children("element", props, ref) : props \in SlotBags, ref \in {NoRef, 2, 3}}

\* React.isValidElement(children)
isValidElement(children) == children.kind \in {"fragment", "element"}

\* The callback mergeRefs returns, as a value.
RefCallback(refs) == Value("refcallback", 0, <<>>, refs)

\* React.cloneElement(element, config): config's props over the element's,
\* config.ref as ref when defined (defaultProps are left out).
cloneElement(element, config) ==
  Children(element.kind,
           [k \in (DOMAIN element.props \cup DOMAIN config) \ {"ref"} |->
              IF k \in DOMAIN config THEN config[k] ELSE element.props[k]],
           IF "ref" \in DOMAIN config /\ config["ref"] # UndefinedV
             THEN config["ref"].items
             ELSE <<element.ref>>)

SlotOutcome(status, element, childProps, cache, next) ==
  [status |-> status, element |-> element, childProps |-> childProps,
   cache |-> cache, next |-> next]

NoElement == Children("none", <<>>, <<>>)

\* A Slot that rejects a Fragment in every build.
Slot_NoDevTest(children, injected, forwardedRef, dev, cache, next) ==
  IF ~isValidElement(children)
    THEN SlotOutcome("invalid", NoElement, children.props, cache, next)
  ELSE IF children.kind = "fragment"
    THEN SlotOutcome("fragment", NoElement, children.props, cache, next)
  ELSE LET out == mergeProps(injected, children.props, cache, next)
           ref == RefCallback(<<forwardedRef, children.ref>>)
       IN  IF out.threw
             THEN SlotOutcome("threw", NoElement, out.child, out.cache, out.next)
             ELSE SlotOutcome("returned",
                              cloneElement(Children(children.kind, out.child, children.ref),
                                           Put(out.props, "ref", ref)),
                              out.child, out.cache, out.next)

\* function Slot({ children, ...injected }, forwardedRef): the error it
\* throws or the element it returns, the child's props object and the handler
\* cache after the render.
Slot(children, injected, forwardedRef, dev, cache, next) ==
  IF ~isValidElement(children)
    THEN SlotOutcome("invalid", NoElement, children.props, cache, next)
  ELSE IF dev /\ children.kind = "fragment"
    THEN SlotOutcome("fragment", NoElement, children.props, cache, next)
  ELSE LET out == mergeProps(injected, children.props, cache, next)
           ref == RefCallback(<<forwardedRef, children.ref>>)
       IN  IF out.threw
             THEN SlotOutcome("threw", NoElement, out.child, out.cache, out.next)
             ELSE SlotOutcome("returned",
                              cloneElement(Children(children.kind, out.child, children.ref),
                                           Put(out.props, "ref", ref)),
                              out.child, out.cache, out.next)

NotRendered == [status |-> "none", element |-> NoElement]

\* React renders the Slot.
SlotRender ==
  /\ sResult.status = "none"
  /\ LET out == Slot(sInput.children, sInput.injected, sInput.forwardedRef, sInput.dev,
                     handlerCache, hNext)
     IN  /\ sResult' = [status |-> out.status, element |-> out.element]
         /\ sInput' = [sInput EXCEPT !.children.props = out.childProps]
         /\ handlerCache' = out.cache
         /\ hNext' = out.next
         /\ rMerged' = IF out.status = "returned"
                         THEN [made |-> TRUE, refs |-> out.element.ref]
                         ELSE rMerged
  /\ UNCHANGED <<hCall, hFirst, hRun, rObserved, rRun>>
  /\ SlotFrame

\* The host mounts, updates or unmounts the element Slot returned and calls
\* its ref.
SlotAttachRef(value) ==
  /\ sResult.status = "returned"
  /\ InvokeMergedRef(value)

SlotInit ==
  /\ sInput \in [children : SlotChildren, injected : SlotBags,
                  forwardedRef : {NoRef, 1, 3}, dev : BOOLEAN]
  /\ sResult = NotRendered

SlotNext ==
  \/ SlotRender
  \/ \E value \in RefValues : SlotAttachRef(value)

SlotRendered == sResult.status # "none"

\* Neither mergeProps nor mergeRefs has done anything.
NothingMerged == handlerCache = <<>> /\ hNext = 0 /\ ~rMerged.made

\* C19: a render of Slot whose children are not one valid element (nothing, a
\* string, several elements) throws the invalid-child error in every build,
\* and a render whose child is a Fragment throws the Fragment error in a
\* development build, both before anything is merged; in a production build
\* a Fragment child is rendered like any element.
C19_SlotRejectsBadChild ==
  SlotRendered =>
    /\ sInput.children.kind \in {"none", "text", "many"}
         => sResult.status = "invalid" /\ NothingMerged
    /\ sInput.children.kind = "fragment"
         => /\ sInput.dev => (sResult.status = "fragment" /\ NothingMerged)
            /\ ~sInput.dev => (sResult.status = "returned" /\ sResult.element.kind = "fragment")
    /\ sResult.status = "invalid" => sInput.children.kind \in {"none", "text", "many"}
    /\ sResult.status = "fragment" => (sInput.dev /\ sInput.children.kind = "fragment")

C19_Witness ==
  /\ sResult.status = "invalid"
  /\ sInput.children.kind = "many" /\ ~sInput.dev
  /\ sInput.injected # <<>>

C19_WitnessFragmentDev ==
  /\ sResult.status = "fragment" /\ sInput.dev /\ sInput.injected # <<>>

C19_WitnessFragmentProd ==
  /\ sResult.status = "returned" /\ ~sInput.dev /\ sInput.children.kind = "fragment"
  /\ sInput.injected # <<>>

\* C20: a render of Slot with one valid element child returns that element
\* with the props mergeProps(injected, child.props) returns, every defined
\* injected critical key holding the injected value, and with one ref that
\* hands each value to the forwarded ref and to the child's own ref.
C20_SlotReturnsMergedElement ==
  (SlotRendered /\ sInput.children.kind = "element") =>
    /\ sResult.status = "returned"
    /\ sResult.element.kind = "element"
    /\ sResult.element.props = mergeProps(sInput.injected, sInput.children.props, <<>>, 0).props
    /\ \A k \in CRITICAL \cap DOMAIN sInput.injected :
         sInput.injected[k] # UndefinedV => Get(sResult.element.props, k) = sInput.injected[k]
    /\ sResult.element.ref = <<sInput.forwardedRef, sInput.children.ref>>
    /\ rRun.done =>
         \A r \in {sInput.forwardedRef, sInput.children.ref} \ {NoRef} : rObserved[r] = rRun.value

----------------------------------------------------------------------------
(* Button.Root and Toggle.Root with asChild: the Root hands its props to   *)
(* Slot, which renders the caller's child element with them.               *)

AsChildFrame == UNCHANGED <<toggleVars, buttonVars, propsVars, slotVars>>

\* The props of the Root: which Root it is, disabled, and the build (__DEV__);
\* the caller passes an accessibilityHint and nothing else.
AsChildProps == [shell : {"Button", "Toggle"}, disabled : OptBool, dev : BOOLEAN]

\* The props a child element comes with: none, an accessibility or focus
\* prop of its own (accessible={false}, focusable, accessibilityRole), or a
\* responder prop of its own, a function or not.
AsChildBags ==
  {<<>>, [k \in {"accessible"} |-> Prim(0)], [k \in {"focusable"} |-> Prim(1)],
   [k \in {"accessibilityRole"} |-> Prim(2)]}
    \cup {[k \in {"onStartShouldSetResponder"} |-> v] : v \in {Fn(1), Fn(2), Prim(1)}}
    \cup {[k \in {"onResponderRelease"} |-> v] : v \in {Fn(1), Prim(1)}}

\* The child of the Root: an element of type View or Pressable.
AsChildChildren ==
  [type : {"View", "Pressable"},
   element : {Children("element", props, NoRef) : props \in AsChildBags}]

\* commonProps of Button.Root: true is Prim(1), false Prim(0), the role, the
\* hint and 'yes' are Prim(1); in accessibilityState 1 is true and 2 false.
buttonCommonProps(disabled) ==
  [onStartShouldSetResponder |-> RootFn(0, disabled, FALSE),
   onResponderRelease        |-> RootFn(2, disabled, FALSE),
   onTerminationRequest      |-> RootFn(1, disabled, FALSE),
   accessible                |-> Prim(1),
   accessibilityRole         |-> Prim(1),
   accessibilityHint         |-> Prim(1),
   accessibilityState        |-> Obj(7, [f \in {"disabled"} |-> IF disabled THEN 1 ELSE 2]),
   focusable                 |-> Prim(IF disabled THEN 0 ELSE 1),
   importantForAccessibility |-> Prim(1)]

\* commonProps of Toggle.Root and the onPress={handleToggle} passed after it.
toggleCommonProps(disabled, checked) ==
  [onStartShouldSetResponder |-> RootFn(0, disabled, checked),
   onResponderRelease        |-> RootFn(3, disabled, checked),
   onTerminationRequest      |-> RootFn(1, disabled, checked),
   accessible                |-> Prim(1),
   accessibilityRole         |-> Prim(1),
   accessibilityHint         |-> Prim(1),
   accessibilityState        |-> Obj(7, [f \in {"disabled", "checked"} |->
                                          IF (IF f = "disabled" THEN disabled ELSE checked)
                                            THEN 1 ELSE 2]),
   focusable                 |-> Prim(IF disabled THEN 0 ELSE 1),
   importantForAccessibility |-> Prim(1),
   onKeyPress                |-> RootFn(4, disabled, checked),
   hitSlop                   |-> Obj(8, [f \in {"top"} |-> 1]),
   onPress                   |-> RootFn(3, disabled, checked)]

\* The props the Root passes to Slot.
commonProps(shell, disabled, checked) ==
  IF shell = "Button" THEN buttonCommonProps(disabled)
  ELSE toggleCommonProps(disabled, checked)

\* if (__DEV__ && asChild && React.isValidElement(children)) and the child's
\* type is not Pressable: console.warn(...). Button.Root has no such test.
warnsNonPressable(shell, dev, child) ==
  shell = "Toggle" /\ dev /\ isValidElement(child.element) /\ child.type # "Pressable"

\* A call of a function value: a handler as it is, or a merged handler.
CallHandler(h, event) ==
  IF h.t = "merged" THEN mergedHandler(h.items[1], h.items[2], event)
  ELSE [event |-> event, log |-> <<[fn |-> h, event |-> event.id]>>, returns |-> ReturnOf(h)]

\* The event of a touch.
TouchEvent == [id |-> "e1", defaultPrevented |-> Undefined]

\* The Root's own release handlers among the handlers a call ran.
RootReleases(log) ==
  SelectSeq(log, LAMBDA c : IsRootFn(c.fn) /\ RootFnProp(c.fn) \in {2, 3})

\* The callbacks of the caller a release handler of the Root calls: the
\* Button's `if (!isDisabled) onPress?.(e)`, the Toggle's handleToggle.
releaseCalls(h) ==
  IF RootFnDisabled(h) THEN <<>>
  ELSE IF RootFnProp(h) = 2 THEN <<Call("onPress", FALSE, "event")>>
  ELSE <<Call("onCheckedChange", ~RootFnChecked(h), "event"), Call("onPress", FALSE, "event")>>

\* handleToggle: setUncontrolledChecked(!isChecked) unless disabled (the
\* checked prop is not supplied).
releaseChecked(h, checked) ==
  IF RootFnProp(h) = 3 /\ ~RootFnDisabled(h) THEN ~RootFnChecked(h) ELSE checked

NotDelegated ==
  [status |-> "none", element |-> NoElement, warned |-> FALSE, isChecked |-> FALSE,
   isDisabled |-> FALSE, injected |-> <<>>]

NoTouch ==
  [phase |-> "none", handler |-> UndefinedV, returned |-> UndefinedV, responder |-> FALSE,
   calls |-> <<>>]

\* React renders the Root: at mount, and again after setUncontrolledChecked
\* changed the state.
AsChildRender ==
  /\ \/ aRendered.status = "none"
     \/ aRendered.status = "returned" /\ aRendered.isChecked # aChecked
  /\ LET disabled == isDisabled(aProps.disabled)
         injected == commonProps(aProps.shell, disabled, aChecked)
         out      == Slot(aChild.element, injected, NoRef, aProps.dev, handlerCache, hNext)
     IN  /\ aRendered' = [status |-> out.status, element |-> out.element,
                          warned |-> warnsNonPressable(aProps.shell, aProps.dev, aChild),
                          isChecked |-> aChecked, isDisabled |-> disabled,
                          injected |-> injected]
         /\ aChild' = [aChild EXCEPT !.element.props = out.childProps]
         /\ handlerCache' = out.cache
         /\ hNext' = out.next
         /\ rMerged' = IF out.status = "returned"
                         THEN [made |-> TRUE, refs |-> out.element.ref]
                         ELSE rMerged
  /\ aTouch' = NoTouch
  /\ UNCHANGED <<aProps, aChecked, hCall, hFirst, hRun, rObserved, rRun>>
  /\ AsChildFrame

\* A touch starts on the rendered child, a host view that is no Pressable:
\* the host asks its onStartShouldSetResponder whether the view becomes the
\* responder of the touch.
AsChildTouchStart ==
  /\ aRendered.status = "returned"
  /\ aChild.type # "Pressable"
  /\ aTouch.phase # "started"
  /\ IsFunction(Get(aRendered.element.props, "onStartShouldSetResponder"))
  /\ LET h   == Get(aRendered.element.props, "onStartShouldSetResponder")
         out == CallHandler(h, TouchEvent)
     IN  aTouch' = [phase |-> "started", handler |-> h, returned |-> out.returns,
                    responder |-> ~Falsy(out.returns), calls |-> <<>>]
  /\ UNCHANGED <<aProps, aChild, aChecked, aRendered, handlerVars, refVars>>
  /\ AsChildFrame

\* The touch is released: the host calls onResponderRelease of the view if
\* the view is the responder of the touch.
AsChildRelease ==
  /\ aTouch.phase = "started"
  /\ LET h    == Get(aRendered.element.props, "onResponderRelease")
         out  == IF aTouch.responder /\ IsFunction(h)
                   THEN CallHandler(h, TouchEvent)
                   ELSE [event |-> TouchEvent, log |-> <<>>, returns |-> UndefinedV]
         root == RootReleases(out.log)
     IN  /\ aTouch' = [phase |-> "released", handler |-> h, returned |-> out.returns,
                       responder |-> aTouch.responder,
                       calls |-> IF root = <<>> THEN <<>> ELSE releaseCalls(root[1].fn)]
         /\ aChecked' = IF root = <<>> THEN aChecked ELSE releaseChecked(root[1].fn, aChecked)
  /\ UNCHANGED <<aProps, aChild, aRendered, handlerVars, refVars>>
  /\ AsChildFrame

AsChildInit ==
  /\ aProps \in AsChildProps
  /\ aChild \in AsChildChildren
  /\ aChecked = FALSE
  /\ aRendered = NotDelegated
  /\ aTouch = NoTouch

AsChildNext ==
  \/ AsChildRender
  \/ AsChildTouchStart
  \/ AsChildRelease

\* The Root has delegated a render to the child and Slot returned an element.
Delegated == aRendered.status = "returned"

\* C25: every accessibility or focus key Button.Root and Toggle.Root put into
\* the bag they hand to Slot (accessible, accessibilityRole,
\* accessibilityHint, focusable, importantForAccessibility) is treated as a
\* critical key: the rendered child holds the Root's value under it, whatever
\* the child's own props say.
C25_InjectedFocusKeysAreCritical ==
  Delegated =>
    \A k \in {"accessible", "accessibilityRole", "accessibilityHint", "focusable",
              "importantForAccessibility"} :
      (k \in DOMAIN aRendered.injected /\ aRendered.injected[k] # UndefinedV)
        => Get(aRendered.element.props, k) = aRendered.injected[k]

\* A Toggle.Root of a development build has rendered a child that is a valid
\* element and no Pressable.
DevToggleOverNonPressable ==
  /\ aProps.shell = "Toggle" /\ aProps.dev
  /\ isValidElement(aChild.element) /\ aChild.type # "Pressable"
  /\ aRendered.status # "none"

\* C26: in a development build a Toggle.Root with asChild over a valid
\* element that is no Pressable logs the warning and does not fail: the render
\* returns the child with the merged props (the Root's keys and the child's
\* own), and the release of a touch on the child of an enabled Toggle calls
\* onCheckedChange with the negated state and stores it, through the
\* responder handlers the Root injected.
C26_NonPressableChildStillToggles ==
  DevToggleOverNonPressable =>
    /\ aRendered.warned
    /\ aRendered.status = "returned"
    /\ aRendered.element.kind = "element"
    /\ DOMAIN aRendered.injected \cup DOMAIN aChild.element.props
         \subseteq DOMAIN aRendered.element.props
    /\ (aTouch.phase = "released" /\ ~aRendered.isDisabled)
         => /\ aTouch.calls # <<>>
            /\ aTouch.calls[1] = Call("onCheckedChange", ~aRendered.isChecked, "event")
            /\ aChecked = ~aRendered.isChecked

\* The host has called a handler of the rendered child in the current touch.
HandlerCalled ==
  \/ aTouch.phase = "started"
  \/ aTouch.phase = "released" /\ aTouch.responder

\* C30: a handler mergeHandlers composed returns undefined, whatever the two
\* handlers it calls return. When the child has a function under a handler
\* key the Root injects a function under, the rendered child holds their
\* composition, so its onStartShouldSetResponder answers undefined where the
\* Root's own handler answers whether the control is enabled.
C30_ComposedHandlerReturnsNothing ==
  /\ Delegated =>
       \A k \in DOMAIN aChild.element.props :
         (IsFunction(aChild.element.props[k]) /\ IsFunction(Get(aRendered.injected, k)))
           => /\ aRendered.element.props[k].t = "merged"
              /\ aRendered.element.props[k].items
                   = <<aRendered.injected[k], aChild.element.props[k]>>
  /\ (HandlerCalled /\ aTouch.handler.t = "merged") => aTouch.returned = UndefinedV
  /\ (HandlerCalled /\ aTouch.handler.t = "fn") => aTouch.returned = ReturnOf(aTouch.handler)

\* An enabled Root over a child whose own onStartShouldSetResponder returns
\* true: the composition answers undefined.
C30_Witness ==
  /\ aTouch.phase = "started" /\ aTouch.handler.t = "merged"
  /\ aTouch.handler.items[1] = aRendered.injected["onStartShouldSetResponder"]
  /\ ReturnOf(aTouch.handler.items[1]) = Prim(1)
  /\ ReturnOf(aTouch.handler.items[2]) = Prim(1)
  /\ aTouch.returned = UndefinedV

\* The Root's handler on its own answers true.
C30_WitnessUncomposed ==
  /\ aTouch.phase = "started" /\ aTouch.handler.t = "fn"
  /\ aTouch.returned = Prim(1) /\ aTouch.responder

\* A composed onResponderRelease has run.
C30_WitnessRelease ==
  /\ aTouch.phase = "released" /\ aTouch.responder /\ aTouch.handler.t = "merged"
  /\ ReturnOf(aTouch.handler.items[2]) = Prim(1)
  /\ aTouch.returned = UndefinedV /\ aTouch.calls # <<>>

----------------------------------------------------------------------------
(* Specifications: one per component; the other components stay idle.      *)

AsChildIdleInit ==
  /\ aProps = [shell |-> "Button", disabled |-> Undefined, dev |-> FALSE]
  /\ aChild = [type |-> "View", element |-> Children("element", <<>>, NoRef)]
  /\ aChecked = FALSE
  /\ aRendered = NotDelegated
  /\ aTouch = NoTouch

ToggleIdleInit ==
  /\ tProps = [pressed |-> Undefined, defaultPressed |-> FALSE,
               disabled |-> Undefined, focusableWhenDisabled |-> FALSE,
               tabIndex |-> Undefined, accessibilityState |-> Undefined]
  /\ uncontrolledState = FALSE
  /\ tRendered = ToggleRenderOf(tProps, uncontrolledState)
  /\ tInput = NoInput
  /\ tCalls = <<>>
  /\ tHist = [n |-> 0, stale |-> FALSE, everControlled |-> FALSE, everDisabled |-> FALSE]

ButtonIdleInit ==
  /\ bProps = [disabled |-> Undefined, focusableWhenDisabled |-> FALSE, tabIndex |-> Undefined,
               accessibilityState |-> Undefined]
  /\ bRendered = ButtonRenderOf(bProps)
  /\ bInput = NoInput
  /\ bCalls = <<>>
  /\ bEverDisabled = FALSE

PropsIdleInit ==
  /\ mpInjected = <<>>
  /\ mpChild = <<>>
  /\ mpResult = NoResult

SlotIdleInit ==
  /\ sInput = <<>>
  /\ sResult = NotRendered

ToggleSpecInit ==
  ToggleInit /\ ButtonIdleInit /\ HandlersInit /\ PropsIdleInit /\ RefsInit /\ SlotIdleInit /\ AsChildIdleInit

ButtonSpecInit ==
  ButtonInit /\ ToggleIdleInit /\ HandlersInit /\ PropsIdleInit /\ RefsInit /\ SlotIdleInit /\ AsChildIdleInit

HandlersSpecInit ==
  HandlersInit /\ ToggleIdleInit /\ ButtonIdleInit /\ PropsIdleInit /\ RefsInit /\ SlotIdleInit /\ AsChildIdleInit

PropsSpecInit ==
  PropsInit /\ HandlersInit /\ ToggleIdleInit /\ ButtonIdleInit /\ RefsInit /\ SlotIdleInit /\ AsChildIdleInit

SlotSpecInit ==
  SlotInit /\ RefsInit /\ HandlersInit /\ ToggleIdleInit /\ ButtonIdleInit /\ PropsIdleInit /\ AsChildIdleInit

ControlsSpecInit ==
  ControlsInit /\ HandlersInit /\ PropsIdleInit /\ RefsInit /\ SlotIdleInit /\ AsChildIdleInit

AsChildSpecInit ==
  AsChildInit /\ HandlersInit /\ RefsInit /\ ToggleIdleInit /\ ButtonIdleInit /\ PropsIdleInit
    /\ SlotIdleInit

RefsSpecInit ==
  RefsInit /\ ToggleIdleInit /\ ButtonIdleInit /\ HandlersInit /\ PropsIdleInit /\ SlotIdleInit /\ AsChildIdleInit

SpecToggle == ToggleSpecInit /\ [][ToggleNext]_vars

SpecButton == ButtonSpecInit /\ [][ButtonNext]_vars

SpecHandlers == HandlersSpecInit /\ [][HandlersNext]_vars

SpecProps == PropsSpecInit /\ [][PropsNext]_vars

SpecRefs == RefsSpecInit /\ [][RefsNext]_vars

SpecSlot == SlotSpecInit /\ [][SlotNext]_vars

SpecControls == ControlsSpecInit /\ [][ControlsNext]_vars

SpecAsChild == AsChildSpecInit /\ [][AsChildNext]_vars

====
